---- MODULE Spec2Model ----
(***************************************************************************)
(* Model of the news/social aggregation engine of med-guardian:            *)
(*   backend/news_ingest.py  provider adapters, circuit-breaker state,     *)
(*                           fetch_combined_news (merge, dedupe, sort)     *)
(*   backend/main.py         /api/news_trends request path and the         *)
(*                           background ingest loop                        *)
(*   backend/redis_client.py cache_get / cache_set                         *)
(* Time is counted in seconds.  The event loop is single-threaded: a       *)
(* coroutine runs without interruption between two awaits, so every action *)
(* below is the code between two suspension points.                        *)
(***************************************************************************)
EXTENDS Integers, Sequences, FiniteSets, TLC

\* ------------------------------------------------------------------------
\* Program constants
\* ------------------------------------------------------------------------
_FAIL_THRESHOLD == 3
_BACKOFF_BASE == 60
NEWS_CACHE_TTL == 180
NEWS_INGEST_INTERVAL == 300
BG_LIMIT == 10
BG_DAYS == 7
MAX_LIMIT == 50

\* ------------------------------------------------------------------------
\* Bounds of the model
\* ------------------------------------------------------------------------
\* the clock advances in steps of TickStep up to MaxNow
TickStep == 60
MaxNow == 120
\* number of fetch_combined_news calls started in one behaviour; the ingest
\* loop begins a pass only if all its calls fit
MaxCalls == 6
\* largest limit the item pipeline is run with
PipeMaxLimit == 2
\* the clock of the ingest loop taken alone: steps of SchedTickStep up to
\* SchedMaxNow, enough for the inter-pass wait to time out once
SchedTickStep == 150
SchedMaxNow == 450

Providers == {"newsapi", "twitter"}
\* iteration order of the task list built by fetch_combined_news
ProviderOrder == <<"newsapi", "twitter">>

None == "None"

\* ------------------------------------------------------------------------
\* Python helpers
\* ------------------------------------------------------------------------
Min(a, b) == IF a <= b THEN a ELSE b
Max(a, b) == IF a >= b THEN a ELSE b

Pow2(n) == 2 ^ n

\* seq[:n] with Python's meaning of a negative bound
Slice(s, n) ==
    LET k == IF n >= 0 THEN Min(n, Len(s)) ELSE Max(Len(s) + n, 0)
    IN  SubSeq(s, 1, k)

\* str.strip() and str.lower() on the titles of the model
Strip(t) ==
    CASE t = " flu spike " -> "flu spike"
      [] t = " "           -> ""
      [] OTHER             -> t

Lower(t) ==
    CASE t = "Flu spike"   -> "flu spike"
      [] t = "Dengue rise" -> "dengue rise"
      [] t = "Mumbai"      -> "mumbai"
      [] t = "Atlantis"    -> "atlantis"
      [] OTHER             -> t

\* urlparse(link).netloc
Netloc(link) ==
    CASE link = "http://a.example/1" -> "a.example"
      [] link = "http://a.example/2" -> "a.example"
      [] link = "http://b.example/1" -> "b.example"
      [] link = "https://twitter.com/i/web/status/1" -> "twitter.com"
      [] link = "https://twitter.com/i/web/status/2" -> "twitter.com"
      [] link = "https://twitter.com/i/web/status/None" -> "twitter.com"
      [] OTHER -> ""

\* Python truthiness of an optional string
Truthy(x) == x # None /\ x # ""

\* x or y
Or(x, y) == IF Truthy(x) THEN x ELSE y

\* ------------------------------------------------------------------------
\* Timestamps.  A timestamp value is a record [kind, t]:
\*   "aware"  a string that parses to a datetime with a zone ("...Z")
\*   "offset" a string with a numeric offset other than UTC ("...+05:30")
\*   "naive"  a string that parses to a datetime without zone
\*   "bad"    a string that does not parse
\*   "nonstr" a value that is not a string (a number)
\*   "none"   missing / null
\* t is the instant it denotes (meaningless for "bad", "nonstr", "none").
\* ------------------------------------------------------------------------
Ts(kind, t) == [kind |-> kind, t |-> t]

\* datetime.utcnow().isoformat() + "Z"
NowZ(now) == Ts("aware", now)

\* ------------------------------------------------------------------------
\* Provider payloads and the adapters' mapping into items
\* ------------------------------------------------------------------------
\* one element of data["articles"] (NewsAPI) / data["data"] (Twitter)
Article(url, title, publishedAt) ==
    [url |-> url, title |-> title, publishedAt |-> publishedAt]

Tweet(id, text, created_at) ==
    [id |-> id, text |-> text, created_at |-> created_at]

Item(id, title, source, timestamp, link, domain) ==
    [id |-> id, title |-> title, source |-> source, timestamp |-> timestamp,
     link |-> link, domain |-> domain]

\* f"https://twitter.com/i/web/status/{t.get('id')}"
StatusLink(id) == "https://twitter.com/i/web/status/" \o id

\* a.get("publishedAt") or ... or datetime.utcnow().isoformat() + "Z"
TsOrNow(ts, now) == IF ts.kind = "none" THEN NowZ(now) ELSE ts

NewsapiItem(a, now) ==
    Item(Or(a.url, a.title),
         Strip(Or(a.title, "")),
         "NewsAPI",
         TsOrNow(a.publishedAt, now),
         a.url,
         IF Truthy(a.url) THEN Netloc(a.url) ELSE None)

TwitterItem(t, now) ==
    Item(t.id,
         Strip(Or(t.text, "")),
         "Twitter",
         TsOrNow(t.created_at, now),
         StatusLink(t.id),
         "twitter.com")

MapSeq(s, F(_)) == [i \in 1..Len(s) |-> F(s[i])]

\* the item list an adapter returns for the payload of a 2xx response
AdapterItems(p, payload, limit, now) ==
    LET FN(a) == NewsapiItem(a, now)
        FT(t) == TwitterItem(t, now)
    IN  IF p = "newsapi" THEN MapSeq(Slice(payload, limit), FN)
                         ELSE MapSeq(Slice(payload, limit), FT)

\* ------------------------------------------------------------------------
\* fetch_combined_news after gather: normalise, dedupe, sort, truncate
\* ------------------------------------------------------------------------
\* a task result: err = "none" and the items, or the exception it raised
Ok(items) == [err |-> "none", items |-> items]
Raised(e) == [err |-> e, items |-> <<>>]

\* the copy of an item with its timestamp and domain set (l.215-232).  The
\* sentiment set at l.211-214 depends on the title and the scorer alone and
\* is carried unchanged through dedup, sort and truncation: SentAttach
\* models it for one title.
NormalizeItem(it, now) ==
    [it EXCEPT !.timestamp = IF it.timestamp.kind \in {"nonstr", "none"}
                             THEN NowZ(now) ELSE @,
               !.domain = IF Truthy(it.link) THEN Netloc(it.link) ELSE None]

\* for res in results: skip exceptions, append the normalised copies
RECURSIVE MergeResults(_, _)
MergeResults(results, now) ==
    IF results = <<>> THEN <<>>
    ELSE LET res == Head(results)
             nf(it) == NormalizeItem(it, now)
         IN  (IF res.err # "none" THEN <<>> ELSE MapSeq(res.items, nf))
             \o MergeResults(Tail(results), now)

DedupKey(it) == Or(it.link, Lower(Strip(it.title)))

\* mutant: among items sharing a key the last one is kept
RECURSIVE DedupFrom_last(_, _)
DedupFrom_last(items, seen) ==
    IF items = <<>> THEN <<>>
    ELSE LET it == Head(items)
             key == DedupKey(it)
         IN  IF ~Truthy(key) \/ \E j \in 2..Len(items) : DedupKey(items[j]) = key
             THEN DedupFrom_last(Tail(items), seen)
             ELSE <<it>> \o DedupFrom_last(Tail(items), seen)

RECURSIVE DedupFrom(_, _)
DedupFrom(items, seen) ==
    IF items = <<>> THEN <<>>
    ELSE LET it == Head(items)
             key == DedupKey(it)
         IN  IF ~Truthy(key) \/ key \in seen
             THEN DedupFrom(Tail(items), seen)
             ELSE <<it>> \o DedupFrom(Tail(items), seen \cup {key})

Dedupe(items) == DedupFrom(items, {})

\* _ts(itm): <<zone class, instant, sub-second rank>>.  An unparsable
\* timestamp gets datetime.utcnow() at the moment its key is computed: a
\* naive datetime, not earlier than the key computed before it.
SortKey(it, now, rank) ==
    CASE it.timestamp.kind \in {"aware", "offset"}
                                     -> <<"aware", it.timestamp.t, 0>>
      [] it.timestamp.kind = "naive" -> <<"naive", it.timestamp.t, 0>>
      [] OTHER                       -> <<"naive", now, rank>>

KeyGreater(a, b) == a[2] > b[2] \/ (a[2] = b[2] /\ a[3] > b[3])

\* the ranks utcnow() can give to the items of s with unparsable timestamps:
\* keys are computed in list order, so ranks do not decrease
Ranks(s) ==
    {r \in [1..Len(s) -> 1..Max(Len(s), 1)] :
        /\ \A i \in 1..Len(s) : s[i].timestamp.kind # "bad" => r[i] = 1
        /\ \A i, j \in 1..Len(s) :
             (i < j /\ s[i].timestamp.kind = "bad" /\ s[j].timestamp.kind = "bad")
                => r[i] <= r[j]}

\* comparing an aware with a naive datetime raises TypeError
MixedZones(keys) ==
    \E i, j \in 1..Len(keys) : keys[i][1] # keys[j][1]

RemoveAt(s, i) == SubSeq(s, 1, i - 1) \o SubSeq(s, i + 1, Len(s))

\* sorted(..., reverse=True): stable, descending
RECURSIVE SortDesc(_, _)
SortDesc(s, keys) ==
    IF s = <<>> THEN <<>>
    ELSE LET i == CHOOSE i \in 1..Len(s) :
                    /\ \A j \in 1..Len(s) : ~KeyGreater(keys[j], keys[i])
                    /\ \A j \in 1..(i - 1) : KeyGreater(keys[i], keys[j])
         IN  <<s[i]>> \o SortDesc(RemoveAt(s, i), RemoveAt(keys, i))

\* the outcomes of sorted(deduped, key=_ts, reverse=True)[:limit]
SortOutcomes(deduped, limit, now) ==
    { LET keys == [i \in 1..Len(deduped) |-> SortKey(deduped[i], now, r[i])]
      IN  IF MixedZones(keys) THEN Raised("TypeError")
          ELSE Ok(Slice(SortDesc(deduped, keys), limit))
      : r \in Ranks(deduped) }

\* what fetch_combined_news returns or raises once gather has returned
CombineOutcomes(results, limit, now) ==
    SortOutcomes(Dedupe(MergeResults(results, now)), limit, now)

\* ------------------------------------------------------------------------
\* Inputs of the model
\* ------------------------------------------------------------------------
A1 == Article("http://a.example/1", "Flu spike", Ts("aware", 10))
A2 == Article("http://a.example/2", "Dengue rise", Ts("bad", 0))
A3 == Article(None, " flu spike ", Ts("aware", 9))
T1 == Tweet("1", "Flu spike", Ts("aware", 9))
T2 == Tweet("2", "Dengue rise", Ts("naive", 10))

\* the bodies a provider answers a 2xx with
Payloads(p) ==
    IF p = "newsapi" THEN {<<>>, <<A3, A1>>, <<A1, A2>>}
                     ELSE {<<>>, <<T1>>, <<T1, T2>>}

\* further provider answers, for the item pipeline taken alone
A4 == Article("https://twitter.com/i/web/status/1", "Flu spike", Ts("aware", 10))
A5 == Article(None, "Flu spike", Ts("aware", 8))
A6 == Article("http://b.example/1", "Flu spike", Ts("bad", 0))
A7 == Article(None, None, Ts("aware", 10))
A8 == Article("http://b.example/1", "Dengue rise", Ts("offset", 10))
A9 == Article("http://a.example/2", "Dengue rise", Ts("nonstr", 0))
A10 == Article("http://a.example/1", "Flu spike", Ts("none", 0))
A11 == Article("http://a.example/1", "Flu spike", Ts("naive", 9))
T3 == Tweet(None, "Dengue rise", Ts("aware", 10))
T4 == Tweet("2", "Dengue rise", Ts("bad", 0))

PipePayloads(p) ==
    IF p = "newsapi"
    THEN {<<>>, <<A1>>, <<A3, A1>>, <<A1, A2>>, <<A4, A5>>, <<A3, A5, A1>>,
          <<A2, A6>>, <<A7, A1>>, <<A8, A1>>, <<A9>>, <<A10>>, <<A11>>}
    ELSE {<<>>, <<T1>>, <<T1, T2>>, <<T3>>, <<T2>>, <<T4, T2>>, <<T4>>}

\* the limits the pipeline is run with
PipeLimits == 0..PipeMaxLimit

\* the query parameters of /api/news_trends
ReqCities == {"Mumbai", "Atlantis"}
ReqDiseases == {"flu"}
ReqLimits == {2}
\* the limits of requests answered without any provider
SynthLimits == {0, 1, 2, 10, 49, 50, 51}

\* city_data.get_city_by_name(city) finds the city
KnownCity(city) == Lower(city) \in {"mumbai"}

\* cities_to_ingest and diseases_to_ingest of the background loop
IngestCities == <<"Mumbai">>
IngestDiseases == <<"flu", "dengue", "covid">>

\* the (city, disease) pairs of a pass, in loop order
Topics ==
    [i \in 1..(Len(IngestCities) * Len(IngestDiseases)) |->
        [city |-> IngestCities[((i - 1) \div Len(IngestDiseases)) + 1],
         disease |-> IngestDiseases[((i - 1) % Len(IngestDiseases)) + 1]]]

Requests == {"r1"}
Callers == Requests \cup {"bg"}

\* ------------------------------------------------------------------------
\* State
\* ------------------------------------------------------------------------
VARIABLES
    configured,      \* providers whose key is set (NEWSAPI_KEY, TWITTER_BEARER)
    redis_up,        \* is_redis_available()
    mongo_up,        \* is_mongodb_available()
    now,             \* datetime.utcnow()
    provider_state,  \* _provider_state: provider -> NoRec or its record
    metric_total,    \* METRIC_FETCH_TOTAL per provider
    metric_fail,     \* METRIC_FETCH_FAIL per provider
    call,            \* per caller: the fetch_combined_news call it awaits
    task,            \* per caller and provider: the adapter coroutine of the call
    resp,            \* per caller: what the caller made of its last call
    cache,           \* Redis: key -> NoEntry or [set, items, source, expires]
    store,           \* MongoDB collection "news": the documents, one per id
    metric_saved,    \* METRIC_NEWS_SAVED
    sched,           \* the background ingest task: [pc, idx, wake, handled, began]
    stop_event,      \* app.state._news_ingest_stop is set
    ncalls,          \* fetch_combined_news calls that reached gather so far
    since_ok,        \* per provider: requests that failed since its last 2xx
    pipe,            \* one run of the item pipeline on given provider payloads
    shutdown,        \* shutdown_event: [pc, during, idx]
    sent             \* one classification of a text: [stage, text, scorer, ...]

cfgVars == <<configured, redis_up, mongo_up>>
healthVars == <<provider_state, metric_total, metric_fail>>
callVars == <<call, task, resp>>
storeVars == <<cache, store, metric_saved>>
schedVars == <<sched, stop_event>>

vars == <<sent, cfgVars, now, healthVars, callVars, storeVars, schedVars, ncalls,
          since_ok, pipe, shutdown>>

\* no entry in _provider_state
NoRec == [present |-> FALSE, fails |-> 0, backoff |-> FALSE, backoff_until |-> 0]

NoEntry == [set |-> FALSE, items |-> <<>>, source |-> None, expires |-> 0]
NoTask == [st |-> "none", res |-> Raised("none")]
PendingTask == [st |-> "pending", res |-> Raised("none")]
IdleCall == [pc |-> "idle", city |-> None, disease |-> None, limit |-> 0]

\* a caller's answer.  fc is the outcome of the fetch_combined_news call
\* behind it ("none": no call was made) and tasks what each adapter of that
\* call ended with ("absent": not in the task list, "none": it returned).
NoResp == [status |-> 0, source |-> None, items |-> <<>>, fc |-> "none",
           tasks |-> [p \in {"newsapi", "twitter"} |-> "absent"]]

\* handled counts the topics the current (or last) pass has dealt with,
\* began is the time at which the pass under way began
NoSched == [pc |-> "none", idx |-> 0, wake |-> 0, handled |-> 0, began |-> 0]

\* shutdown_event has not run.  pc is "waiting" while it awaits the ingest
\* task; during and idx keep where the loop stood when the event was set.
NoShutdown == [pc |-> "none", during |-> "none", idx |-> 0, wake |-> 0, busy |-> FALSE]

\* no classification under way
NoSent == [stage |-> "idle", text |-> <<>>, scorer |-> [fail |-> "none", compound |-> 0],
           tier1 |-> "", label |-> ""]

\* no pipeline run under way
NoPipe == [stage |-> "idle",
           payload |-> [p \in {"newsapi", "twitter"} |-> <<>>],
           limit |-> 0,
           res |-> [p \in {"newsapi", "twitter"} |-> <<>>],
           at |-> 0,
           out |-> Raised("none"),
           again |-> Raised("none")]

\* _news_cache_key(city, disease, limit)
_news_cache_key(city, disease, limit) ==
    "news:" \o Lower(city) \o ":" \o Lower(disease) \o ":" \o ToString(limit)

CacheKeys ==
    {_news_cache_key(c, d, Min(l, MAX_LIMIT)) :
        c \in ReqCities, d \in ReqDiseases, l \in ReqLimits \cup SynthLimits}
    \cup {_news_cache_key(Topics[i].city, Topics[i].disease, BG_LIMIT) :
            i \in 1..Len(Topics)}

\* ------------------------------------------------------------------------
\* Provider health (circuit breaker)
\* ------------------------------------------------------------------------
\* mutant: the window is closed one instant too long
ProviderOkAt_le(s, t) ==
    IF ~s.present THEN TRUE
    ELSE IF s.backoff /\ t <= s.backoff_until THEN FALSE
    ELSE TRUE

\* _provider_ok(name) evaluated on the record s at time t
ProviderOkAt(s, t) ==
    IF ~s.present THEN TRUE
    ELSE IF s.backoff /\ t < s.backoff_until THEN FALSE
    ELSE TRUE

\* mutant: the adapter does not consult the circuit breaker
_provider_ok_always(p) == TRUE

\* mutant: one circuit breaker is shared by all the providers
_provider_ok_shared(p) ==
    \A q \in Providers : ProviderOkAt(provider_state[q], now)

_provider_ok(p) == ProviderOkAt(provider_state[p], now)

\* mutant: the check drops a backoff_until that has passed and resets the counter
ProviderStateRead_expire(s, t) ==
    IF s.present /\ s.backoff /\ t >= s.backoff_until
    THEN [present |-> TRUE, fails |-> 0, backoff |-> FALSE, backoff_until |-> 0]
    ELSE s

\* the record of a provider once _provider_ok has looked at it:
\* _provider_state.get(name) and two comparisons, nothing is stored
ProviderStateRead(s, t) == s

\* mutant: the failure counter is reset but backoff_until is not popped
RecordSuccess_keep(s, t) ==
    [present |-> TRUE, fails |-> 0, backoff |-> s.backoff,
     backoff_until |-> s.backoff_until]

\* mutant: a success that arrives while the provider is in backoff is ignored
RecordSuccess_stale(s, t) ==
    IF s.present /\ s.backoff
    THEN s
    ELSE [present |-> TRUE, fails |-> 0, backoff |-> FALSE, backoff_until |-> 0]

\* the try branch: s = setdefault(...); s["fails"] = 0; s.pop("backoff_until")
RecordSuccess(s, t) ==
    [present |-> TRUE, fails |-> 0, backoff |-> FALSE, backoff_until |-> 0]

\* mutant: the threshold test is > instead of >=
RecordFailure_gt(s, t) ==
    LET fails == s.fails + 1
    IN  IF fails > _FAIL_THRESHOLD
        THEN [present |-> TRUE, fails |-> fails, backoff |-> TRUE,
              backoff_until |-> t + _BACKOFF_BASE * Pow2(fails - _FAIL_THRESHOLD)]
        ELSE [present |-> TRUE, fails |-> fails, backoff |-> s.backoff,
              backoff_until |-> s.backoff_until]

\* mutant: the exponent counts the failures from one below the threshold
RecordFailure_exp(s, t) ==
    LET fails == s.fails + 1
    IN  IF fails >= _FAIL_THRESHOLD
        THEN [present |-> TRUE, fails |-> fails, backoff |-> TRUE,
              backoff_until |-> t + _BACKOFF_BASE * Pow2(fails - _FAIL_THRESHOLD + 1)]
        ELSE [present |-> TRUE, fails |-> fails, backoff |-> s.backoff,
              backoff_until |-> s.backoff_until]

\* mutant: the record is replaced by a fresh one instead of being updated
RecordFailure_fresh(s, t) ==
    [present |-> TRUE, fails |-> 1, backoff |-> FALSE, backoff_until |-> 0]

\* mutant: a failure that finds the window open counts but leaves it alone
RecordFailure_hold(s, t) ==
    LET fails == s.fails + 1
    IN  IF fails >= _FAIL_THRESHOLD /\ ~(s.backoff /\ t < s.backoff_until)
        THEN [present |-> TRUE, fails |-> fails, backoff |-> TRUE,
              backoff_until |-> t + _BACKOFF_BASE * Pow2(fails - _FAIL_THRESHOLD)]
        ELSE [present |-> TRUE, fails |-> fails, backoff |-> s.backoff,
              backoff_until |-> s.backoff_until]

\* mutant: a failure after the window has passed starts the count again
RecordFailure_elapsed(s, t) ==
    LET fails == IF s.backoff /\ t >= s.backoff_until THEN 1 ELSE s.fails + 1
    IN  IF fails >= _FAIL_THRESHOLD
        THEN [present |-> TRUE, fails |-> fails, backoff |-> TRUE,
              backoff_until |-> t + _BACKOFF_BASE * Pow2(fails - _FAIL_THRESHOLD)]
        ELSE [present |-> TRUE, fails |-> fails, backoff |-> FALSE,
              backoff_until |-> 0]

\* mutant: the window is opened one failure before the threshold
RecordFailure_early(s, t) ==
    LET fails == s.fails + 1
    IN  IF fails >= _FAIL_THRESHOLD - 1
        THEN [present |-> TRUE, fails |-> fails, backoff |-> TRUE,
              backoff_until |-> t + _BACKOFF_BASE]
        ELSE [present |-> TRUE, fails |-> fails, backoff |-> s.backoff,
              backoff_until |-> s.backoff_until]

\* the except branch: fails += 1; at the threshold set backoff_until
RecordFailure(s, t) ==
    LET fails == s.fails + 1
    IN  IF fails >= _FAIL_THRESHOLD
        THEN [present |-> TRUE, fails |-> fails, backoff |-> TRUE,
              backoff_until |-> t + _BACKOFF_BASE * Pow2(fails - _FAIL_THRESHOLD)]
        ELSE [present |-> TRUE, fails |-> fails, backoff |-> s.backoff,
              backoff_until |-> s.backoff_until]

\* ------------------------------------------------------------------------
\* Sentiment (_simple_sentiment, _enhanced_sentiment)
\* ------------------------------------------------------------------------
\* a text is the sequence of its characters
UpperChars == <<"A", "B", "C", "D", "E", "F", "G", "H", "I", "J", "K", "L", "M", "N", "O", "P", "Q", "R", "S", "T", "U", "V", "W", "X", "Y", "Z">>
LowerChars == <<"a", "b", "c", "d", "e", "f", "g", "h", "i", "j", "k", "l", "m", "n", "o", "p", "q", "r", "s", "t", "u", "v", "w", "x", "y", "z">>

\* str.lower() on one character and on a text
LowerChar(ch) ==
    IF \E i \in 1..Len(UpperChars) : UpperChars[i] = ch
    THEN LowerChars[CHOOSE i \in 1..Len(UpperChars) : UpperChars[i] = ch]
    ELSE ch

LowerText(t) == [i \in 1..Len(t) |-> LowerChar(t[i])]

\* k in t
Contains(t, k) ==
    \E i \in 0..(Len(t) - Len(k)) : SubSeq(t, i + 1, i + Len(k)) = k

\* any(k in t for k in words)
AnyIn(words, t) == \E j \in 1..Len(words) : Contains(t, words[j])

AlarmWords ==
    <<<<"o", "u", "t", "b", "r", "e", "a", "k">>,
      <<"a", "l", "a", "r", "m">>,
      <<"u", "r", "g", "e", "n", "t">>,
      <<"s", "u", "r", "g", "e">>,
      <<"s", "p", "i", "k", "e">>>>

ConcernWords ==
    <<<<"c", "o", "n", "c", "e", "r", "n">>,
      <<"w", "o", "r", "r", "y">>,
      <<"r", "i", "s", "e">>,
      <<"i", "n", "c", "r", "e", "a", "s", "e">>>>

AdvisoryWords ==
    <<<<"a", "d", "v", "i", "s", "o", "r", "y">>,
      <<"r", "e", "c", "o", "m", "m", "e", "n", "d">>,
      <<"p", "r", "e", "c", "a", "u", "t", "i", "o", "n">>,
      <<"w", "a", "r", "n">>>>

\* mutant: the advisory keywords are looked for first
_simple_sentiment_advisory(text) ==
    IF text = <<>> THEN "neutral"
    ELSE IF AnyIn(AdvisoryWords, LowerText(text)) THEN "advisory"
    ELSE IF AnyIn(AlarmWords, LowerText(text)) THEN "alarm"
    ELSE IF AnyIn(ConcernWords, LowerText(text)) THEN "concern"
    ELSE "neutral"

_simple_sentiment(text) ==
    IF text = <<>> THEN "neutral"
    ELSE IF AnyIn(AlarmWords, LowerText(text)) THEN "alarm"
    ELSE IF AnyIn(ConcernWords, LowerText(text)) THEN "concern"
    ELSE IF AnyIn(AdvisoryWords, LowerText(text)) THEN "advisory"
    ELSE "neutral"

\* compound scores are counted in units of 1/10000 (polarity_scores rounds
\* to four decimals); the thresholds 0.5 and -0.3 in these units
CompoundUnit == 10000
PositiveFrom == 5000
AlarmUpTo == -3000

\* mutant: a score of exactly -0.3 is not alarm
CompoundLabel_strict(c) ==
    IF c >= PositiveFrom THEN "positive"
    ELSE IF c < AlarmUpTo THEN "alarm"
    ELSE IF c < 0 THEN "concern"
    ELSE "neutral"

\* the label for scores["compound"]
CompoundLabel(c) ==
    IF c >= PositiveFrom THEN "positive"
    ELSE IF c <= AlarmUpTo THEN "alarm"
    ELSE IF c < 0 THEN "concern"
    ELSE "neutral"

\* what the statistical scorer does with a text: fail is "import" (nltk is
\* not installed), "construct" (SentimentIntensityAnalyzer() raises, and
\* again after nltk.download), "score" (polarity_scores raises) or "none",
\* and then compound is the score
Scorer(fail, compound) == [fail |-> fail, compound |-> compound]

\* mutant: without the scorer the label is neutral
_enhanced_sentiment_neutral(text, scorer) ==
    IF text = <<>> THEN "neutral"
    ELSE IF scorer.fail # "none" THEN "neutral"
    ELSE CompoundLabel(scorer.compound)

_enhanced_sentiment(text, scorer) ==
    IF text = <<>> THEN "neutral"
    ELSE IF scorer.fail # "none" THEN _simple_sentiment(text)
    ELSE CompoundLabel(scorer.compound)

\* the texts and the scorers drawn
SentTexts ==
    {<<>>,
     <<"F", "l", "u", " ", "S", "P", "I", "K", "E", " ", "i", "n", " ", "M", "u", "m", "b", "a", "i">>,
     <<"D", "e", "n", "g", "u", "e", " ", "r", "i", "s", "e">>,
     <<"U", "r", "g", "e", "n", "t", " ", "a", "d", "v", "i", "s", "o", "r", "y", " ", "i", "s", "s", "u", "e", "d">>,
     <<"M", "i", "l", "d", " ", "w", "a", "r", "n", "i", "n", "g">>,
     <<"c", "a", "l", "m", " ", "d", "a", "y">>,
     <<"B", "i", "g", " ", "s", "u", "r", "p", "r", "i", "s", "e">>,
     <<"n", "o", " ", "W", "O", "R", "R", "Y", " ", "o", "u", "t", "b", "r", "e", "a", "k">>,
     <<"r", "e", "c", "o", "m", "m", "e", "n", "d", " ", "r", "e", "s", "t">>,
     <<"a">>}

SentCompounds ==
    {-CompoundUnit, AlarmUpTo - 1, AlarmUpTo, AlarmUpTo + 1, -1, 0, 1,
     PositiveFrom - 1, PositiveFrom, PositiveFrom + 1, CompoundUnit}

SentScorers ==
    {Scorer(f, 0) : f \in {"import", "construct", "score"}}
    \cup {Scorer("none", c) : c \in SentCompounds}

\* ------------------------------------------------------------------------
\* Synthetic generators of the callers
\* ------------------------------------------------------------------------
\* get_news_trends draws, for each generated item, random.randint(1, 120)
\* and random.choice of a title, a source and a sentiment.  A draw gives
\* these for every index; the draws taken here are one that runs through
\* the sentiments and one that repeats the same choice.
SynthSentiments == <<"neutral", "concern", "alarm", "advisory">>

SynthDraws ==
    {[i \in 1..MAX_LIMIT |->
        [minutes_ago |-> IF cyc THEN 1 ELSE 120,
         sentiment |-> SynthSentiments[IF cyc THEN ((i - 1) % 4) + 1 ELSE 3]]] :
     cyc \in BOOLEAN}

\* an item as get_news_trends generates it
SynthItem(id, sentiment, timestamp) ==
    [id |-> id, title |-> "generated", source |-> "generated",
     sentiment |-> sentiment, timestamp |-> timestamp, link |-> None]

\* mutant: one item too many
SyntheticNews_more(n, rnd) ==
    [i \in 1..(Max(n, 0) + 1) |-> SynthItem("news", rnd[1].sentiment, Ts("aware", 0))]

\* get_news_trends: range(min(limit, 50)) generated items
SyntheticNews(n, rnd) ==
    [i \in 1..Max(n, 0) |->
        SynthItem("news-" \o ToString(i - 1) \o "-" \o ToString(rnd[i].minutes_ago),
                  rnd[i].sentiment, Ts("aware", 0))]

\* _run_news_ingest_loop: one item per day of get_latest_trends(days=7)
SyntheticTrends(city, disease) ==
    [i \in 1..Min(BG_DAYS, BG_LIMIT) |->
        Item("synthetic-" \o city \o "-" \o disease \o "-" \o ToString(i - 1),
             disease \o " cases in " \o city, "synthetic",
             Ts("aware", 0), None, None)]

\* ------------------------------------------------------------------------
\* Cache (redis_client.py) and store (database.py)
\* ------------------------------------------------------------------------
\* mutant: an entry with no items counts as a miss
CacheGetAt_nonempty(c, key, up, t) ==
    IF up /\ c[key].set /\ t < c[key].expires /\ c[key].items # <<>>
    THEN c[key] ELSE NoEntry

\* cache_get(key) on the cache c at time t: the value unless the key is
\* unset or its TTL has run out
CacheGetAt(c, key, up, t) ==
    IF up /\ c[key].set /\ t < c[key].expires THEN c[key] ELSE NoEntry

cache_get(key) == CacheGetAt(cache, key, redis_up, now)

\* cache_set(key, {"items": items, "source": source}, ttl) guarded by
\* is_redis_available()
CacheSetAt(c, key, items, source, ttl, up, t) ==
    IF up
    THEN [c EXCEPT ![key] = [set |-> TRUE, items |-> items, source |-> source,
                             expires |-> t + ttl]]
    ELSE c

\* save_news_item(item): update_one({"id": id}, {"$set": doc}, upsert=True)
\* with doc["timestamp"] the parsed timestamp, or utcnow() when it does not
\* parse, and doc["ingested_at"] = utcnow()
save_news_item(st, it, t) ==
    {d \in st : d.id # it.id}
    \cup {[id |-> it.id, item |-> it,
           timestamp |-> IF it.timestamp.kind = "bad" THEN Ts("naive", t)
                                                      ELSE it.timestamp,
           ingested_at |-> t]}

RECURSIVE SaveAll(_, _, _)
SaveAll(st, items, t) ==
    IF items = <<>> THEN st
    ELSE SaveAll(save_news_item(st, Head(items), t), Tail(items), t)

\* ------------------------------------------------------------------------
\* fetch_combined_news: the task list and what gather returns
\* ------------------------------------------------------------------------
\* the adapter coroutines put in the task list
TasksFor(cfg) ==
    [p \in Providers |-> IF p \in cfg THEN PendingTask ELSE NoTask]

NoTasks == [p \in Providers |-> NoTask]

\* the results gather hands back, in task order
RECURSIVE ResultsOf(_, _)
ResultsOf(tasks, order) ==
    IF order = <<>> THEN <<>>
    ELSE (IF tasks[Head(order)].st = "done" THEN <<tasks[Head(order)].res>> ELSE <<>>)
         \o ResultsOf(tasks, Tail(order))

GatherDone(c) ==
    /\ call[c].pc = "gather"
    /\ \A p \in Providers : task[c][p].st \in {"none", "done"}

TaskEnds(tasks) ==
    [p \in Providers |-> IF tasks[p].st = "done" THEN tasks[p].res.err ELSE "absent"]

\* mutant: the empty task list is not rejected
NoProviders_never(cfg) == FALSE

\* fetch_combined_news raises before any await when the task list is empty
NoProviders(cfg) == \A p \in Providers : TasksFor(cfg)[p].st = "none"

\* ------------------------------------------------------------------------
\* /api/news_trends (get_news_trends)
\* ------------------------------------------------------------------------
\* the answer once fetch_combined_news has returned (out.err = "none") or
\* raised
ReqAnswer(out, tasks, limit, rnd) ==
    IF out.err = "none"
    THEN [status |-> 200, source |-> "external", items |-> out.items,
          fc |-> "ok", tasks |-> TaskEnds(tasks)]
    ELSE [status |-> 200, source |-> "synthetic", items |-> SyntheticNews(limit, rnd),
          fc |-> out.err, tasks |-> TaskEnds(tasks)]

\* a request arrives and runs up to its first suspension
ReqArrive(c, city, disease, limit, rnd) ==
    /\ c \in Requests
    /\ call[c].pc = "idle"
    /\ LET lim == Min(limit, MAX_LIMIT)
           key == _news_cache_key(city, disease, lim)
       IN  IF ~KnownCity(city)
           THEN \* the HTTPException(404) is caught by the handler's own except
                /\ resp' = [resp EXCEPT ![c] = [NoResp EXCEPT !.status = 500]]
                /\ UNCHANGED <<call, task, ncalls>>
           ELSE IF cache_get(key).set
           THEN /\ resp' = [resp EXCEPT ![c] =
                              [NoResp EXCEPT !.status = 200,
                                             !.source = cache_get(key).source,
                                             !.items = cache_get(key).items]]
                /\ UNCHANGED <<call, task, ncalls>>
           ELSE IF NoProviders(configured)
           THEN /\ resp' = [resp EXCEPT ![c] =
                              ReqAnswer(Raised("NoProvidersConfigured"), NoTasks, lim,
                                        rnd)]
                /\ UNCHANGED <<call, task, ncalls>>
           ELSE /\ ncalls < MaxCalls
                /\ call' = [call EXCEPT ![c] = [pc |-> "gather", city |-> city,
                                                disease |-> disease, limit |-> lim]]
                /\ task' = [task EXCEPT ![c] = TasksFor(configured)]
                /\ ncalls' = ncalls + 1
                /\ UNCHANGED resp
    /\ UNCHANGED <<pipe, shutdown, sent, cfgVars, now, healthVars, storeVars, schedVars, since_ok>>

\* gather has returned: the rest of fetch_combined_news and of the handler
ReqFinish(c, rnd) ==
    /\ c \in Requests
    /\ GatherDone(c)
    /\ LET results == ResultsOf(task[c], ProviderOrder)
           key == _news_cache_key(call[c].city, call[c].disease, call[c].limit)
       IN  \E out \in CombineOutcomes(results, call[c].limit, now) :
             /\ resp' = [resp EXCEPT ![c] = ReqAnswer(out, task[c], call[c].limit, rnd)]
             /\ cache' = IF out.err = "none"
                         THEN CacheSetAt(cache, key, out.items, "external",
                                         NEWS_CACHE_TTL, redis_up, now)
                         ELSE cache
    /\ call' = [call EXCEPT ![c] = IdleCall]
    /\ task' = [task EXCEPT ![c] = NoTasks]
    /\ UNCHANGED <<pipe, shutdown, sent, cfgVars, now, healthVars, store, metric_saved, schedVars, ncalls,
                   since_ok>>

\* ------------------------------------------------------------------------
\* Provider adapters (fetch_newsapi, fetch_twitter)
\* ------------------------------------------------------------------------
\* the coroutine runs from its start to the await of the HTTP request
AdapterStart(c, p) ==
    /\ task[c][p].st = "pending"
    /\ IF p \notin configured
       THEN /\ task' = [task EXCEPT ![c][p] = [st |-> "done", res |-> Raised("NotConfigured")]]
            /\ UNCHANGED metric_total
       ELSE IF ~_provider_ok(p)
       THEN /\ task' = [task EXCEPT ![c][p] = [st |-> "done", res |-> Raised("InBackoff")]]
            /\ UNCHANGED metric_total
       ELSE /\ metric_total' = [metric_total EXCEPT ![p] = @ + 1]
            /\ task' = [task EXCEPT ![c][p] = [st |-> "inflight", res |-> Raised("none")]]
    /\ provider_state' = IF p \in configured
                         THEN [provider_state EXCEPT ![p] = ProviderStateRead(@, now)]
                         ELSE provider_state
    /\ UNCHANGED <<pipe, shutdown, sent, cfgVars, now, metric_fail, call, resp, storeVars,
                   schedVars, ncalls, since_ok>>

\* mutant: the aggregator invokes the adapter again after a failure
AfterFailure_retry(p) == PendingTask

\* the adapter re-raises (l.78): gather keeps the exception as its result
AfterFailure(p) == [st |-> "done", res |-> Raised("RequestError")]

\* the request fails: timeout, non-2xx status or a body that is not JSON
AdapterFail(c, p) ==
    /\ task[c][p].st = "inflight"
    /\ metric_fail' = [metric_fail EXCEPT ![p] = @ + 1]
    /\ provider_state' = [provider_state EXCEPT ![p] = RecordFailure(@, now)]
    /\ task' = [task EXCEPT ![c][p] = AfterFailure(p)]
    /\ since_ok' = [since_ok EXCEPT ![p] = @ + 1]
    /\ UNCHANGED <<pipe, shutdown, sent, cfgVars, now, metric_total, call, resp, storeVars, schedVars, ncalls>>

\* the request succeeds with a well-formed body
AdapterSucceed(c, p, payload) ==
    /\ task[c][p].st = "inflight"
    /\ provider_state' = [provider_state EXCEPT ![p] = RecordSuccess(@, now)]
    /\ task' = [task EXCEPT ![c][p] =
                  [st |-> "done",
                   res |-> Ok(AdapterItems(p, payload, call[c].limit, now))]]
    /\ since_ok' = [since_ok EXCEPT ![p] = 0]
    /\ UNCHANGED <<pipe, shutdown, sent, cfgVars, now, metric_total, metric_fail, call, resp, storeVars,
                   schedVars, ncalls>>

\* the request succeeds with JSON of an unexpected shape: the mapping into
\* items raises after the failure counter has been reset
AdapterBadShape(c, p) ==
    /\ task[c][p].st = "inflight"
    /\ provider_state' = [provider_state EXCEPT ![p] = RecordSuccess(@, now)]
    /\ task' = [task EXCEPT ![c][p] = [st |-> "done", res |-> Raised("BadShape")]]
    /\ since_ok' = [since_ok EXCEPT ![p] = 0]
    /\ UNCHANGED <<pipe, shutdown, sent, cfgVars, now, metric_total, metric_fail, call, resp, storeVars,
                   schedVars, ncalls>>

\* ------------------------------------------------------------------------
\* Background ingest loop (_run_news_ingest_loop) and its task management
\* ------------------------------------------------------------------------
\* what the loop makes of one topic once fetch_combined_news has returned or
\* raised: the items and their source
\* mutant: the loop labels its fallback items as external
BgAnswer_external(out, tasks, topic) ==
    IF out.err = "none"
    THEN [status |-> 0, source |-> "external", items |-> out.items,
          fc |-> "ok", tasks |-> TaskEnds(tasks)]
    ELSE [status |-> 0, source |-> "external",
          items |-> SyntheticTrends(topic.city, topic.disease),
          fc |-> out.err, tasks |-> TaskEnds(tasks)]

BgAnswer(out, tasks, topic) ==
    IF out.err = "none"
    THEN [status |-> 0, source |-> "external", items |-> out.items,
          fc |-> "ok", tasks |-> TaskEnds(tasks)]
    ELSE [status |-> 0, source |-> "synthetic",
          items |-> SyntheticTrends(topic.city, topic.disease),
          fc |-> out.err, tasks |-> TaskEnds(tasks)]

\* mutant: cache_set with its default TTL of one hour
BgCache_hour(c, ans, topic, t) ==
    CacheSetAt(c, _news_cache_key(topic.city, topic.disease, BG_LIMIT),
               ans.items, ans.source, 3600, redis_up, t)

\* lines 86-102 for one topic: cache the answer, persist its items
BgCache(c, ans, topic, t) ==
    CacheSetAt(c, _news_cache_key(topic.city, topic.disease, BG_LIMIT),
               ans.items, ans.source, NEWS_CACHE_TTL, redis_up, t)

BgStore(st, ans, t) == IF mongo_up THEN SaveAll(st, ans.items, t) ELSE st

BgSaved(n, ans) == IF mongo_up THEN n + Len(ans.items) ELSE n

\* a whole pass when no provider is configured: no topic suspends
RECURSIVE PassCache(_, _, _)
PassCache(c, i, t) ==
    IF i > Len(Topics) THEN c
    ELSE PassCache(BgCache(c, BgAnswer(Raised("NoProvidersConfigured"), NoTasks,
                                       Topics[i]), Topics[i], t), i + 1, t)

RECURSIVE PassStore(_, _, _)
PassStore(st, i, t) ==
    IF i > Len(Topics) THEN st
    ELSE PassStore(BgStore(st, BgAnswer(Raised("NoProvidersConfigured"), NoTasks,
                                        Topics[i]), t), i + 1, t)

RECURSIVE PassSaved(_, _)
PassSaved(n, i) ==
    IF i > Len(Topics) THEN n
    ELSE PassSaved(BgSaved(n, BgAnswer(Raised("NoProvidersConfigured"), NoTasks,
                                       Topics[i])), i + 1)

BgCall(i) == [pc |-> "gather", city |-> Topics[i].city,
              disease |-> Topics[i].disease, limit |-> BG_LIMIT]

\* mutant: startup_event does not look for a task it created before
HasIngestTask_never(s) == FALSE

\* getattr(app.state, "_news_ingest_task", None): a task object has been
\* stored, whether it still runs or not
HasIngestTask(s) == s.pc # "none"

\* startup_event
Startup ==
    /\ shutdown.pc = "none"
    /\ IF (redis_up \/ mongo_up \/ configured # {}) /\ ~HasIngestTask(sched)
       THEN /\ sched' = [pc |-> "start", idx |-> 0, wake |-> 0, handled |-> 0,
                         began |-> 0]
            /\ stop_event' = FALSE
       ELSE UNCHANGED <<sched, stop_event>>
    /\ UNCHANGED <<pipe, shutdown, sent, cfgVars, now, healthVars, callVars, storeVars, ncalls, since_ok>>

\* shutdown_event up to its await: sets the stop event of an existing task
Shutdown ==
    /\ shutdown.pc = "none"
    /\ IF sched.pc # "none"
       THEN /\ stop_event' = TRUE
            /\ shutdown' = [pc |-> "waiting", during |-> sched.pc,
                            idx |-> sched.idx, wake |-> sched.wake,
                            busy |-> \E p \in Providers :
                                        task["bg"][p].st = "inflight"]
       ELSE /\ shutdown' = [shutdown EXCEPT !.pc = "done"]
            /\ UNCHANGED stop_event
    /\ UNCHANGED <<pipe, sent, cfgVars, now, healthVars, callVars, storeVars, sched, ncalls,
                   since_ok>>

\* "await app.state._news_ingest_task" returns once the loop has returned
ShutdownDone ==
    /\ shutdown.pc = "waiting"
    /\ sched.pc = "exited"
    /\ shutdown' = [shutdown EXCEPT !.pc = "done"]
    /\ UNCHANGED <<pipe, sent, cfgVars, now, healthVars, callVars, storeVars, schedVars,
                   ncalls, since_ok>>

SleepEnds_timeout(wake) == now >= wake

\* "await asyncio.wait_for(stop_event.wait(), timeout=NEWS_INGEST_INTERVAL)"
\* returns when the event is set or raises TimeoutError at the wake time
SleepEnds(wake) == stop_event \/ now >= wake

\* the loop reaches "while not stop_event.is_set()": when the task first
\* runs, and when wait_for returns or times out
SchedRun ==
    /\ \/ sched.pc = "start"
       \/ sched.pc = "sleep" /\ SleepEnds(sched.wake)
    /\ IF stop_event
       THEN /\ sched' = [sched EXCEPT !.pc = "exited", !.idx = 0, !.wake = 0,
                                        !.began = 0]
            /\ UNCHANGED <<callVars, storeVars, ncalls>>
       ELSE IF NoProviders(configured)
       THEN /\ cache' = PassCache(cache, 1, now)
            /\ store' = PassStore(store, 1, now)
            /\ metric_saved' = PassSaved(metric_saved, 1)
            /\ resp' = [resp EXCEPT !["bg"] =
                          BgAnswer(Raised("NoProvidersConfigured"), NoTasks,
                                   Topics[Len(Topics)])]
            /\ sched' = [pc |-> "sleep", idx |-> 0,
                         wake |-> now + NEWS_INGEST_INTERVAL,
                         handled |-> Len(Topics), began |-> 0]
            /\ UNCHANGED <<call, task, ncalls>>
       ELSE /\ ncalls + Len(Topics) <= MaxCalls
            /\ call' = [call EXCEPT !["bg"] = BgCall(1)]
            /\ task' = [task EXCEPT !["bg"] = TasksFor(configured)]
            /\ ncalls' = ncalls + 1
            /\ sched' = [pc |-> "pass", idx |-> 1, wake |-> 0, handled |-> 0,
                         began |-> now]
            /\ UNCHANGED <<resp, storeVars>>
    /\ UNCHANGED <<pipe, shutdown, sent, cfgVars, now, healthVars, stop_event, since_ok>>

\* mutant: a topic whose aggregation raised ends the pass
PassGoesOn_abort(out, idx) == out.err = "none" /\ idx < Len(Topics)

\* mutant: the stop event is examined after every topic
PassGoesOn_stop(out, idx) == ~stop_event /\ idx < Len(Topics)

\* the for loops go on to the next topic whatever fetch_combined_news did:
\* its exception is caught inside the loop body (lines 62-104), and the stop
\* event is not looked at before the pass is over
PassGoesOn(out, idx) == idx < Len(Topics)

\* gather has returned for the current topic: the rest of the loop body,
\* then the next topic's call or, after the last topic, the wait
SchedTopicDone ==
    /\ sched.pc = "pass"
    /\ GatherDone("bg")
    /\ LET results == ResultsOf(task["bg"], ProviderOrder)
           topic == Topics[sched.idx]
       IN  \E out \in CombineOutcomes(results, BG_LIMIT, now) :
             LET ans == BgAnswer(out, task["bg"], topic)
             IN  /\ resp' = [resp EXCEPT !["bg"] = ans]
                 /\ cache' = BgCache(cache, ans, topic, now)
                 /\ store' = BgStore(store, ans, now)
                 /\ metric_saved' = BgSaved(metric_saved, ans)
                 /\ IF PassGoesOn(out, sched.idx)
                    THEN /\ call' = [call EXCEPT !["bg"] = BgCall(sched.idx + 1)]
                         /\ task' = [task EXCEPT !["bg"] = TasksFor(configured)]
                         /\ ncalls' = ncalls + 1
                         /\ sched' = [sched EXCEPT !.idx = @ + 1,
                                                   !.handled = @ + 1]
                    ELSE /\ call' = [call EXCEPT !["bg"] = IdleCall]
                         /\ task' = [task EXCEPT !["bg"] = NoTasks]
                         /\ sched' = [pc |-> "sleep", idx |-> 0,
                                      wake |-> now + NEWS_INGEST_INTERVAL,
                                      handled |-> sched.handled + 1,
                                      began |-> 0]
                         /\ UNCHANGED ncalls
    /\ UNCHANGED <<pipe, shutdown, sent, cfgVars, now, healthVars, stop_event, since_ok>>

\* ------------------------------------------------------------------------
\* Time
\* ------------------------------------------------------------------------
Tick ==
    /\ now + TickStep <= MaxNow
    /\ now' = now + TickStep
    /\ UNCHANGED <<pipe, shutdown, sent, cfgVars, healthVars, callVars, storeVars, schedVars, ncalls,
                   since_ok>>

\* time as the ingest loop taken alone sees it
SchedTick ==
    /\ now + SchedTickStep <= SchedMaxNow
    /\ now' = now + SchedTickStep
    /\ UNCHANGED <<pipe, shutdown, sent, cfgVars, healthVars, callVars, storeVars, schedVars,
                   ncalls, since_ok>>

\* ------------------------------------------------------------------------
\* The item pipeline taken alone: both adapters get a 2xx with the given
\* payloads, fetch_combined_news merges their items, and the merge is run
\* once more on its own output.
\* ------------------------------------------------------------------------
PipeDraw(pn, pt, limit) ==
    /\ pipe.stage = "idle"
    /\ pipe' = [pipe EXCEPT !.stage = "drawn",
                            !.payload = [p \in Providers |->
                                           IF p = "newsapi" THEN pn ELSE pt],
                            !.limit = limit]
    /\ UNCHANGED <<shutdown, sent, cfgVars, now, healthVars, callVars, storeVars,
                   schedVars, ncalls, since_ok>>

\* the adapters map the payloads into items
PipeAdapters ==
    /\ pipe.stage = "drawn"
    /\ pipe' = [pipe EXCEPT !.stage = "fetched",
                            !.res = [p \in Providers |->
                                       AdapterItems(p, pipe.payload[p],
                                                    pipe.limit, now)]]
    /\ UNCHANGED <<shutdown, sent, cfgVars, now, healthVars, callVars, storeVars,
                   schedVars, ncalls, since_ok>>

\* gather returns both item lists, in task order
PipeResults(res) == [i \in 1..Len(ProviderOrder) |-> Ok(res[ProviderOrder[i]])]

PipeCombine ==
    /\ pipe.stage = "fetched"
    /\ \E out \in CombineOutcomes(PipeResults(pipe.res), pipe.limit, now) :
          pipe' = [pipe EXCEPT !.stage = "combined", !.at = now, !.out = out]
    /\ UNCHANGED <<shutdown, sent, cfgVars, now, healthVars, callVars, storeVars,
                   schedVars, ncalls, since_ok>>

\* normalise, dedupe, sort and truncate the returned list again
PipeAgain ==
    /\ pipe.stage = "combined"
    /\ pipe.out.err = "none"
    /\ \E out \in CombineOutcomes(<<Ok(pipe.out.items)>>, pipe.limit, now) :
          pipe' = [pipe EXCEPT !.stage = "again", !.again = out]
    /\ UNCHANGED <<shutdown, sent, cfgVars, now, healthVars, callVars, storeVars,
                   schedVars, ncalls, since_ok>>

\* ------------------------------------------------------------------------
\* One classification: a title and the behaviour of the scorer
\* ------------------------------------------------------------------------
SentDraw(text, scorer) ==
    /\ sent.stage = "idle"
    /\ sent' = [NoSent EXCEPT !.stage = "drawn", !.text = text, !.scorer = scorer]
    /\ UNCHANGED <<pipe, shutdown, cfgVars, now, healthVars, callVars, storeVars,
                   schedVars, ncalls, since_ok>>

\* _simple_sentiment(text)
SentSimple ==
    /\ sent.stage = "drawn"
    /\ sent' = [sent EXCEPT !.stage = "simple", !.tier1 = _simple_sentiment(sent.text)]
    /\ UNCHANGED <<pipe, shutdown, cfgVars, now, healthVars, callVars, storeVars,
                   schedVars, ncalls, since_ok>>

\* fetch_combined_news l.211-214: it_copy["sentiment"] = _enhanced_sentiment(title)
SentAttach ==
    /\ sent.stage \in {"drawn", "simple"}
    /\ sent' = [sent EXCEPT !.stage = "done",
                            !.label = _enhanced_sentiment(sent.text, sent.scorer)]
    /\ UNCHANGED <<pipe, shutdown, cfgVars, now, healthVars, callVars, storeVars,
                   schedVars, ncalls, since_ok>>

\* ------------------------------------------------------------------------
\* Specifications
\* ------------------------------------------------------------------------
Init ==
    /\ configured \in SUBSET Providers
    /\ redis_up \in BOOLEAN
    /\ mongo_up \in BOOLEAN
    /\ now = 0
    /\ provider_state = [p \in Providers |-> NoRec]
    /\ metric_total = [p \in Providers |-> 0]
    /\ metric_fail = [p \in Providers |-> 0]
    /\ call = [c \in Callers |-> IdleCall]
    /\ task = [c \in Callers |-> NoTasks]
    /\ resp = [c \in Callers |-> NoResp]
    /\ cache = [k \in CacheKeys |-> NoEntry]
    /\ store = {}
    /\ metric_saved = 0
    /\ sched = NoSched
    /\ stop_event = FALSE
    /\ ncalls = 0
    /\ since_ok = [p \in Providers |-> 0]
    /\ sent = NoSent
    /\ pipe = NoPipe
    /\ shutdown = NoShutdown

\* the request path alone, the background task not yet started
InitReq == Init /\ ~mongo_up

NextReq ==
    \/ \E c \in Requests, city \in ReqCities, disease \in ReqDiseases,
          limit \in ReqLimits, rnd \in SynthDraws :
            ReqArrive(c, city, disease, limit, rnd)
    \/ \E c \in Requests, rnd \in SynthDraws : ReqFinish(c, rnd)
    \/ \E c \in Requests, p \in Providers : AdapterStart(c, p)
    \/ \E c \in Requests, p \in Providers : AdapterFail(c, p)
    \/ \E c \in Requests, p \in Providers :
          \E payload \in Payloads(p) : AdapterSucceed(c, p, payload)
    \/ \E c \in Requests, p \in Providers : AdapterBadShape(c, p)
    \/ Tick

Spec == InitReq /\ [][NextReq]_vars

\* requests and the background loop sharing the state of one provider,
\* without cache and store
HealthPayloads(p) == {<<>>}

InitHealth == Init /\ ~redis_up /\ ~mongo_up /\ Cardinality(configured) = 1

NextHealth ==
    \/ \E c \in Requests, city \in ReqCities, disease \in ReqDiseases,
          limit \in ReqLimits, rnd \in SynthDraws :
            ReqArrive(c, city, disease, limit, rnd)
    \/ \E c \in Requests, rnd \in SynthDraws : ReqFinish(c, rnd)
    \/ \E c \in Callers, p \in Providers : AdapterStart(c, p)
    \/ \E c \in Callers, p \in Providers : AdapterFail(c, p)
    \/ \E c \in Callers, p \in Providers :
          \E payload \in HealthPayloads(p) : AdapterSucceed(c, p, payload)
    \/ \E c \in Callers, p \in Providers : AdapterBadShape(c, p)
    \/ Startup
    \/ SchedRun
    \/ SchedTopicDone
    \/ Tick

SpecHealth == InitHealth /\ [][NextHealth]_vars

\* the item pipeline on given payloads
InitPipe == Init /\ configured = Providers /\ ~redis_up /\ ~mongo_up

NextPipe ==
    \/ \E pn \in PipePayloads("newsapi"), pt \in PipePayloads("twitter"),
          limit \in PipeLimits : PipeDraw(pn, pt, limit)
    \/ PipeAdapters
    \/ PipeCombine
    \/ PipeAgain
    \/ Tick

SpecPipe == InitPipe /\ [][NextPipe]_vars

\* the background ingest loop from startup to shutdown, without requests
SchedPayloads(p) == IF p = "newsapi" THEN {<<A3, A1>>, <<A1, A2>>} ELSE {<<>>}

InitSched == Init /\ configured \subseteq {"newsapi"}

\* the answers drawn where termination is checked: what the loop does after
\* a topic does not depend on the items
LivePayloads(p) == {<<>>}

BgAdapterEnds ==
    \E p \in Providers :
        \/ AdapterFail("bg", p)
        \/ AdapterBadShape("bg", p)
        \/ \E payload \in LivePayloads(p) : AdapterSucceed("bg", p, payload)

NextSched ==
    \/ Startup
    \/ Shutdown
    \/ ShutdownDone
    \/ SchedRun
    \/ SchedTopicDone
    \/ \E p \in Providers : AdapterStart("bg", p)
    \/ \E p \in Providers : AdapterFail("bg", p)
    \/ \E p \in Providers :
          \E payload \in SchedPayloads(p) : AdapterSucceed("bg", p, payload)
    \/ \E p \in Providers : AdapterBadShape("bg", p)
    \/ SchedTick

SpecSched == InitSched /\ [][NextSched]_vars

\* the event loop runs every coroutine that is ready, and a provider request
\* ends (httpx timeout of 20 s)
SchedFairness ==
    /\ WF_vars(SchedRun)
    /\ WF_vars(SchedTopicDone)
    /\ WF_vars(ShutdownDone)
    /\ WF_vars(\E p \in Providers : AdapterStart("bg", p))
    /\ WF_vars(BgAdapterEnds)

NextSchedLive ==
    \/ Startup
    \/ Shutdown
    \/ ShutdownDone
    \/ SchedRun
    \/ SchedTopicDone
    \/ \E p \in Providers : AdapterStart("bg", p)
    \/ \E p \in Providers : AdapterFail("bg", p)
    \/ \E p \in Providers :
          \E payload \in LivePayloads(p) : AdapterSucceed("bg", p, payload)
    \/ \E p \in Providers : AdapterBadShape("bg", p)
    \/ SchedTick

SpecSchedLive == InitSched /\ [][NextSchedLive]_vars /\ SchedFairness

\* the classification of one title
InitSent == Init /\ configured = Providers /\ ~redis_up /\ ~mongo_up

NextSent ==
    \/ \E text \in SentTexts, scorer \in SentScorers : SentDraw(text, scorer)
    \/ SentSimple
    \/ SentAttach

SpecSent == InitSent /\ [][NextSent]_vars

\* requests and the ingest loop when no provider key is set
InitSynth == Init /\ configured = {}

NextSynth ==
    \/ \E c \in Requests, city \in ReqCities, disease \in ReqDiseases,
          limit \in SynthLimits, rnd \in SynthDraws :
            ReqArrive(c, city, disease, limit, rnd)
    \/ Startup
    \/ SchedRun
    \/ Tick

SpecSynth == InitSynth /\ [][NextSynth]_vars

\* requests and the background loop writing the same cache: Redis is up, at
\* most NewsAPI is configured, and the requests ask for the limit the loop
\* uses, so that a request for a topic of the loop has the loop's cache key
CacheLimits == {BG_LIMIT}

CachePayloads(p) == IF p = "newsapi" THEN {<<A3, A1>>, <<A1, A2>>} ELSE {<<>>}

InitCache == Init /\ redis_up /\ ~mongo_up /\ configured \subseteq {"newsapi"}

NextCache ==
    \/ \E c \in Requests, city \in ReqCities, disease \in ReqDiseases,
          limit \in CacheLimits, rnd \in SynthDraws :
            ReqArrive(c, city, disease, limit, rnd)
    \/ \E c \in Requests, rnd \in SynthDraws : ReqFinish(c, rnd)
    \/ \E c \in Callers, p \in Providers : AdapterStart(c, p)
    \/ \E c \in Callers, p \in Providers : AdapterFail(c, p)
    \/ \E c \in Callers, p \in Providers :
          \E payload \in CachePayloads(p) : AdapterSucceed(c, p, payload)
    \/ Startup
    \/ SchedRun
    \/ SchedTopicDone
    \/ Tick

SpecCache == InitCache /\ [][NextCache]_vars

\* ------------------------------------------------------------------------
\* Properties
\* ------------------------------------------------------------------------
\* steps of the adapter of caller c for provider p
InvokeStep(c, p) == task[c][p].st = "pending" /\ task'[c][p].st # "pending"

EndStep(c, p, err) ==
    /\ task[c][p].st = "inflight"
    /\ task'[c][p].st = "done"
    /\ task'[c][p].res.err = err

FailStep(p) == \E c \in Callers : EndStep(c, p, "RequestError")
SuccessStep(p) == \E c \in Callers : EndStep(c, p, "none")

\* the provider has a backoff_until that time t has not reached
InWindow(s, t) == s.present /\ s.backoff /\ t < s.backoff_until

AdapterFailures == {"RequestError", "InBackoff"}

\* C1: in a call with two adapters of which one fails (request error or in
\* backoff) and the other returns, fetch_combined_news does not raise and
\* returns the surviving adapter's items, normalised, deduplicated, sorted
\* and truncated; the caller answers with them as external items.
C1_PartialTolerance ==
    [][\A c \in Requests : \A p \in Providers : \A q \in Providers \ {p} :
         ( /\ GatherDone(c)
           /\ call'[c].pc = "idle"
           /\ task[c][p].st = "done" /\ task[c][p].res.err \in AdapterFailures
           /\ task[c][q].st = "done" /\ task[c][q].res.err = "none" )
         => /\ resp'[c].fc = "ok"
            /\ resp'[c].source = "external"
            /\ Ok(resp'[c].items)
                 \in CombineOutcomes(<<task[c][q].res>>, call[c].limit, now)]_vars

\* C2: with no adapter configured every fetch_combined_news call fails with
\* NoProvidersConfigured, no adapter is invoked and the provider state and
\* the attempt and failure counters stay as they were.
C2_ZeroConfiguration ==
    configured = {} =>
        /\ \A c \in Callers :
             /\ call[c].pc = "idle"
             /\ resp[c].status = 200 => resp[c].fc = "NoProvidersConfigured"
             /\ resp[c].fc \in {"none", "NoProvidersConfigured"}
             /\ \A p \in Providers : task[c][p].st = "none"
        /\ \A p \in Providers :
             /\ provider_state[p] = NoRec
             /\ metric_total[p] = 0
             /\ metric_fail[p] = 0

C2_Witness ==
    /\ configured = {}
    /\ resp["r1"].fc = "NoProvidersConfigured"
    /\ resp["r1"].source = "synthetic"

\* C3: after fewer than _FAIL_THRESHOLD consecutive failures a provider is
\* eligible; the failure that brings the count to the threshold sets
\* backoff_until and makes it ineligible at every time before backoff_until.
C3_CircuitThreshold ==
    [][\A p \in Providers :
         LET s == provider_state'[p]
         IN  /\ since_ok'[p] < _FAIL_THRESHOLD
                  => ~s.backoff /\ ProviderOkAt(s, now')
             /\ (FailStep(p) /\ since_ok'[p] = _FAIL_THRESHOLD)
                  => /\ s.fails = _FAIL_THRESHOLD
                     /\ s.backoff
                     /\ s.backoff_until > now'
                     /\ \A t \in now'..(s.backoff_until - 1) : ~ProviderOkAt(s, t)]_vars

C3_Witness ==
    \E p \in Providers :
        /\ since_ok[p] = _FAIL_THRESHOLD
        /\ provider_state[p].backoff
        /\ ~_provider_ok(p)

\* C4: a failure that leaves the counter at f >= _FAIL_THRESHOLD sets
\* backoff_until to now + _BACKOFF_BASE * 2^(f - _FAIL_THRESHOLD): 60, 120
\* and 240 seconds for the 3rd, 4th and 5th consecutive failure.
C4_BackoffGrowth ==
    [][\A p \in Providers :
         FailStep(p) =>
           LET s == provider_state'[p]
               f == s.fails
               d == s.backoff_until - now
           IN  f >= _FAIL_THRESHOLD =>
                 /\ s.backoff
                 /\ d = _BACKOFF_BASE * Pow2(f - _FAIL_THRESHOLD)
                 /\ f = 3 => d = 60
                 /\ f = 4 => d = 120
                 /\ f = 5 => d = 240]_vars

C4_Witness ==
    \E p \in Providers :
        /\ provider_state[p].fails = 5
        /\ since_ok[p] = 5
        /\ provider_state[p].backoff_until = now + 240

\* C5: a successful fetch leaves the provider with fails = 0 and no
\* backoff_until, hence eligible, whatever its record was; fails is never
\* negative.
C5_SuccessResets ==
    [][\A p \in Providers :
         LET s == provider_state'[p]
         IN  /\ s.fails >= 0
             /\ SuccessStep(p) =>
                  /\ s.present /\ s.fails = 0 /\ ~s.backoff
                  /\ ProviderOkAt(s, now')]_vars

\* a success that found the provider in its backoff window
C5_Witness ==
    \E p \in Providers : \E c \in Callers :
        /\ task[c][p].st = "done" /\ task[c][p].res.err = "none"
        /\ metric_fail[p] >= _FAIL_THRESHOLD
        /\ provider_state[p].fails = 0
        /\ since_ok[p] = 0
        /\ _provider_ok(p)

\* C6: a provider is ineligible exactly while it has a backoff_until that
\* now has not reached; the passing of time changes no record, and a provider
\* whose record is untouched is eligible again as soon as now >= backoff_until.
C6_EligibilityTimePure ==
    [][\A p \in Providers :
         LET s == provider_state[p]
         IN  /\ (_provider_ok(p))' <=> ~InWindow(provider_state'[p], now')
             /\ now' # now => provider_state' = provider_state
             /\ ( /\ ~_provider_ok(p)
                  /\ provider_state'[p] = s
                  /\ now' >= s.backoff_until ) => (_provider_ok(p))']_vars

\* eligible at the instant backoff_until, the counter still at the threshold
C6_Witness ==
    \E p \in Providers :
        /\ provider_state[p].backoff
        /\ provider_state[p].fails >= _FAIL_THRESHOLD
        /\ since_ok[p] >= _FAIL_THRESHOLD
        /\ now = provider_state[p].backoff_until
        /\ _provider_ok(p)

\* C7: an adapter invoked while its provider is in the backoff window ends
\* with ProviderInBackoff without a request (no attempt counted) and without
\* touching the record; eligibility is evaluated at the invocation itself,
\* so an adapter invoked outside the window issues its request.
C7_NoAttemptInBackoff ==
    [][\A c \in Callers : \A p \in Providers :
         InvokeStep(c, p) =>
           IF InWindow(provider_state[p], now)
           THEN /\ task'[c][p] = [st |-> "done", res |-> Raised("InBackoff")]
                /\ metric_total' = metric_total
                /\ metric_fail' = metric_fail
                /\ provider_state' = provider_state
           ELSE /\ task'[c][p].st = "inflight"
                /\ metric_total'[p] = metric_total[p] + 1]_vars

C7_Witness ==
    \E c \in Callers : \E p \in Providers :
        /\ task[c][p].st = "done"
        /\ task[c][p].res.err = "InBackoff"
        /\ InWindow(provider_state[p], now)

C9_NoErrorPastAggregator ==
    \A c \in Callers :
        ( /\ configured # {}
          /\ resp[c].fc # "none"
          /\ \E p \in Providers :
               resp[c].tasks[p] \in AdapterFailures )
        => resp[c].fc = "ok"

\* C10: when every configured adapter failed in a call (request error or in
\* backoff), the caller answers with synthetic items marked synthetic.
C10_TotalFailureFallback ==
    \A c \in Callers :
        ( /\ resp[c].fc # "none"
          /\ \E p \in Providers : resp[c].tasks[p] # "absent"
          /\ \A p \in Providers : resp[c].tasks[p] \in AdapterFailures \cup {"absent"} )
        => /\ resp[c].source = "synthetic"
           /\ resp[c].status # 500

\* ------------------------------------------------------------------------
\* Properties of the item pipeline (SpecPipe)
\* ------------------------------------------------------------------------
\* the adapters' items in provider-iteration order, as the merge loop sees them
PipeMerged == pipe.res[ProviderOrder[1]] \o pipe.res[ProviderOrder[2]]

\* fetch_combined_news has returned a list
PipeReturned == pipe.stage \in {"combined", "again"} /\ pipe.out.err = "none"

\* C11: the returned list holds no two items with the same dedup key, and
\* each returned item is the first item with its key in provider-iteration
\* order, with no field taken from a later duplicate.
C11_Deduplication ==
    PipeReturned =>
        LET out == pipe.out.items
            M == PipeMerged
        IN  /\ \A i, j \in 1..Len(out) :
                  DedupKey(out[i]) = DedupKey(out[j]) => i = j
            /\ \A i \in 1..Len(out) :
                  \E k \in 1..Len(M) :
                      /\ DedupKey(M[k]) = DedupKey(out[i])
                      /\ \A l \in 1..(k - 1) : DedupKey(M[l]) # DedupKey(M[k])
                      /\ out[i] = NormalizeItem(M[k], pipe.at)

\* the first adapter's item with link .../status/1 and the later timestamp
\* met the second adapter's item with the same link, and only it is returned
C11_Witness ==
    /\ PipeReturned
    /\ \E i \in 1..Len(pipe.res["newsapi"]), j \in 1..Len(pipe.res["twitter"]) :
          /\ pipe.res["newsapi"][i].link = pipe.res["twitter"][j].link
          /\ pipe.res["newsapi"][i].timestamp = Ts("aware", 10)
          /\ pipe.res["twitter"][j].timestamp = Ts("aware", 9)
          /\ \E k \in 1..Len(pipe.out.items) :
                pipe.out.items[k] = pipe.res["newsapi"][i]
          /\ \A k \in 1..Len(pipe.out.items) :
                pipe.out.items[k] # NormalizeItem(pipe.res["twitter"][j], pipe.at)

\* everything the providers delivered, mapped into items, in provider order
PipeDelivered ==
    AdapterItems(ProviderOrder[1], pipe.payload[ProviderOrder[1]],
                 Len(pipe.payload[ProviderOrder[1]]), pipe.at)
    \o AdapterItems(ProviderOrder[2], pipe.payload[ProviderOrder[2]],
                    Len(pipe.payload[ProviderOrder[2]]), pipe.at)

\* the item's timestamp denotes an instant
Parsable(it) == it.timestamp.kind \in {"aware", "offset", "naive"}

\* C12: the returned list has at most limit items, and the only truncation
\* is the one after the sort of the deduplicated union: an item a provider
\* delivered is missing from the list only if a duplicate of it is there, or
\* the list is full with items that are at least as recent.
C12_GlobalTruncation ==
    PipeReturned =>
        LET out == pipe.out.items
            All == PipeDelivered
        IN  /\ Len(out) <= pipe.limit
            /\ \A k \in 1..Len(All) :
                  (Truthy(DedupKey(All[k])) /\ Parsable(All[k])) =>
                      \/ \E i \in 1..Len(out) : DedupKey(out[i]) = DedupKey(All[k])
                      \/ /\ Len(out) = pipe.limit
                         /\ \A i \in 1..Len(out) :
                               Parsable(out[i]) =>
                                   out[i].timestamp.t >= All[k].timestamp.t

\* the place of a returned item in provider-iteration order
PipePos(it) ==
    CHOOSE k \in 1..Len(PipeMerged) :
        /\ DedupKey(PipeMerged[k]) = DedupKey(it)
        /\ \A l \in 1..(k - 1) : DedupKey(PipeMerged[l]) # DedupKey(it)

\* two items carry the same timestamp: the same value, or the same instant
\* written with different offsets
SameTime(a, b) ==
    \/ a.timestamp = b.timestamp
    \/ /\ a.timestamp.kind \in {"aware", "offset"}
       /\ b.timestamp.kind \in {"aware", "offset"}
       /\ a.timestamp.t = b.timestamp.t

\* C13: in the returned list a later item is never more recent than an
\* earlier one, and two items with equal timestamps stand in
\* provider-iteration order.
C13_Ordering ==
    PipeReturned =>
        LET out == pipe.out.items
        IN  \A i, j \in 1..Len(out) :
                i < j =>
                    /\ (Parsable(out[i]) /\ Parsable(out[j]))
                          => out[i].timestamp.t >= out[j].timestamp.t
                    /\ SameTime(out[i], out[j]) => PipePos(out[i]) < PipePos(out[j])

\* fetch_combined_news has run to its end, returning or raising
PipeEnded == pipe.stage \in {"combined", "again"}

\* C14: an item whose timestamp does not parse never makes the call fail;
\* unless a duplicate came before it or the list is full it is in the
\* returned list, and there it carries the start time of the aggregation.
C14_UnparsableKept ==
    PipeEnded =>
        \A k \in 1..Len(PipeMerged) :
            PipeMerged[k].timestamp.kind = "bad" =>
                /\ pipe.out.err = "none"
                /\ ( /\ Truthy(DedupKey(PipeMerged[k]))
                     /\ \A l \in 1..(k - 1) :
                           DedupKey(PipeMerged[l]) # DedupKey(PipeMerged[k])
                     /\ Len(pipe.out.items) < pipe.limit )
                   => \E i \in 1..Len(pipe.out.items) :
                         DedupKey(pipe.out.items[i]) = DedupKey(PipeMerged[k])
                /\ \A i \in 1..Len(pipe.out.items) :
                      PipePos(pipe.out.items[i]) = k
                          => pipe.out.items[i].timestamp = NowZ(pipe.at)

\* C15: every item of the returned list has a non-empty id.
C15_IdentityNonEmpty ==
    PipeReturned =>
        \A i \in 1..Len(pipe.out.items) : Truthy(pipe.out.items[i].id)

\* C16: normalising, deduplicating, sorting and truncating the returned list
\* once more, with the same limit, returns the same list.
C16_Idempotence ==
    pipe.stage = "again" => pipe.again = pipe.out

\* C17: every item of the returned list carries a timestamp in the canonical
\* form, UTC with the zone marker "Z".
C17_CanonicalTimestamps ==
    PipeReturned =>
        \A i \in 1..Len(pipe.out.items) :
            pipe.out.items[i].timestamp.kind = "aware"

\* ------------------------------------------------------------------------
\* Properties of the background ingest loop (SpecSched, SpecSchedLive)
\* ------------------------------------------------------------------------
\* the cache key of the i-th topic of a pass
TopicKey(i) == _news_cache_key(Topics[i].city, Topics[i].disease, BG_LIMIT)

\* the cache entry of the i-th topic was written in this step
TopicCached(i) ==
    /\ cache'[TopicKey(i)].set
    /\ cache'[TopicKey(i)].expires = now + NEWS_CACHE_TTL

\* the loop moves on in this step
SchedStep == sched' # sched /\ sched.pc # "none"

\* C18: whatever the outcome of the aggregation for a topic (items, an
\* aggregation error, NoProvidersConfigured), the topic is dealt with to its
\* end and the loop goes to the next topic of the cross-product; after the
\* last topic it waits for the next pass, having dealt with every topic; and
\* without the stop signal the loop never ends.
C18_FailureIsolation ==
    [][ /\ (SchedStep /\ sched.pc = "pass") =>
              /\ sched'.handled = sched.handled + 1
              /\ redis_up => TopicCached(sched.idx)
              /\ IF sched.idx < Len(Topics)
                 THEN /\ sched'.pc = "pass"
                      /\ sched'.idx = sched.idx + 1
                      /\ call'["bg"] = BgCall(sched.idx + 1)
                 ELSE /\ sched'.pc = "sleep"
                      /\ sched'.handled = Len(Topics)
        /\ (SchedStep /\ sched.pc \in {"start", "sleep"} /\ ~stop_event) =>
              \/ /\ sched'.pc = "pass"
                 /\ sched'.idx = 1
                 /\ call'["bg"] = BgCall(1)
              \/ /\ configured = {}
                 /\ resp'["bg"].fc = "NoProvidersConfigured"
                 /\ sched'.pc = "sleep"
                 /\ sched'.handled = Len(Topics)
                 /\ redis_up => \A i \in 1..Len(Topics) : TopicCached(i)
      ]_vars

\* the aggregation of the first topic raised, and the loop is at the second
C18_Witness ==
    /\ sched.pc = "pass"
    /\ sched.idx = 2
    /\ sched.handled = 1
    /\ resp["bg"].fc = "TypeError"
    /\ resp["bg"].source = "synthetic"
    /\ call["bg"] = BgCall(2)
    /\ ~stop_event

\* the loop leaves its sleep in this step
SleepLeft == SchedStep /\ sched.pc = "sleep" /\ stop_event

\* C19: once the stop signal is set the loop ends, provided that the
\* requests under way end; a loop that sleeps when the signal is set can go
\* on at once, whatever the time, and its next step is to end, with no call
\* started and nothing written; shutdown sets the signal when it begins to
\* wait for the task, and is over only when the loop has ended.
C19_CooperativeCancellation ==
    /\ stop_event ~> (sched.pc = "exited")
    /\ (shutdown.pc = "waiting") ~> (shutdown.pc = "done")
    /\ [](sched.pc = "sleep" /\ stop_event => ENABLED SchedRun)
    /\ [][SleepLeft => /\ sched'.pc = "exited"
                        /\ UNCHANGED <<callVars, storeVars, ncalls, now>>]_vars
    /\ [](shutdown.pc = "waiting" => stop_event)
    /\ [](shutdown.pc = "done" => sched.pc \in {"none", "exited"})

\* the signal came in the sleep and the loop has ended before the wake time
C19_Witness ==
    /\ shutdown.during = "sleep"
    /\ shutdown.pc = "done"
    /\ sched.pc = "exited"
    /\ now < shutdown.wake

\* a request of the loop that is under way stays so or ends as a request ends
InflightKept(p) ==
    task["bg"][p].st = "inflight" =>
        \/ task'["bg"][p] = task["bg"][p]
        \/ /\ task'["bg"][p].st = "done"
           /\ task'["bg"][p].res.err \in {"none", "RequestError", "BadShape"}

\* C20: the stop signal set in a pass changes neither the loop's position nor
\* its calls; the requests under way end as requests do; every topic that is
\* left is dealt with once its calls have ended, so that the pass ends with
\* all topics dealt with; the loop can then go on at once, and its only step
\* is to end, with no call begun.
C20_StopDuringPass ==
    /\ [][(~stop_event /\ stop_event') => UNCHANGED <<sched, call, task>>]_vars
    /\ [][stop_event => \A p \in Providers : InflightKept(p)]_vars
    /\ [][(SchedStep /\ sched.pc = "pass" /\ stop_event) =>
              /\ GatherDone("bg")
              /\ sched'.handled = sched.handled + 1
              /\ IF sched.idx < Len(Topics)
                 THEN /\ sched'.pc = "pass"
                      /\ sched'.idx = sched.idx + 1
                      /\ call'["bg"] = BgCall(sched.idx + 1)
                 ELSE sched'.pc = "sleep"]_vars
    /\ [](shutdown.during = "pass" /\ sched.pc \in {"sleep", "exited"}
             => sched.handled = Len(Topics))
    /\ [](shutdown.during = "pass" /\ sched.pc = "sleep" => ENABLED SchedRun)
    /\ [][(shutdown.during = "pass" /\ SchedStep /\ sched.pc \in {"sleep", "exited"})
             => /\ sched.pc = "sleep"
                /\ sched'.pc = "exited"
                /\ now' = now
                /\ UNCHANGED <<call, task, ncalls>>]_vars

\* the signal came in the first topic of a pass with a request under way; all
\* topics were dealt with and the loop has ended before the interval is over
C20_Witness ==
    /\ shutdown.during = "pass"
    /\ shutdown.idx = 1
    /\ shutdown.busy
    /\ sched.pc = "exited"
    /\ sched.handled = Len(Topics)
    /\ now < NEWS_INGEST_INTERVAL

\* what fetch_combined_news can return for the topic the loop is at
BgReturns ==
    {out \in CombineOutcomes(ResultsOf(task["bg"], ProviderOrder), BG_LIMIT, now) :
        out.err = "none"}

\* the cache entry of the i-th topic after this step: the items with source
\* "external", readable until NEWS_CACHE_TTL has passed and no longer
CachedFor(i, items) ==
    /\ TopicKey(i) = "news:" \o Lower(Topics[i].city) \o ":"
                        \o Lower(Topics[i].disease) \o ":10"
    /\ cache'[TopicKey(i)].set
    /\ cache'[TopicKey(i)].items = items
    /\ cache'[TopicKey(i)].source = "external"
    /\ CacheGetAt(cache', TopicKey(i), TRUE, now + NEWS_CACHE_TTL - 1).set
    /\ ~CacheGetAt(cache', TopicKey(i), TRUE, now + NEWS_CACHE_TTL).set

\* every item has its document in the store after this step, under its id
StoredAll(items) ==
    \A i \in 1..Len(items) :
        \E d \in store' :
            /\ d.id = items[i].id
            /\ d.ingested_at = now
            /\ \E j \in 1..Len(items) : items[j].id = d.id /\ d.item = items[j]

\* C21: when the aggregation for a topic of the ingest loop returns, then
\* with Redis available the cache holds under news:{city}:{disease}:10 (both
\* lowercased) exactly the items returned, for NEWS_CACHE_TTL = 180, and with
\* MongoDB available every one of these items is in the store under its id.
C21_IngestWrites ==
    [][(SchedStep /\ sched.pc = "pass" /\ resp'["bg"].fc = "ok") =>
          \E out \in BgReturns :
              /\ resp'["bg"].items = out.items
              /\ redis_up => CachedFor(sched.idx, out.items)
              /\ mongo_up => StoredAll(out.items)
              /\ NEWS_CACHE_TTL = 180
      ]_vars

\* the aggregation of the first topic returned two items, now cached and
\* stored
C21_Witness ==
    /\ sched.pc = "pass"
    /\ sched.idx = 2
    /\ redis_up /\ mongo_up
    /\ resp["bg"].fc = "ok"
    /\ Len(resp["bg"].items) = 2
    /\ cache[TopicKey(1)].items = resp["bg"].items
    /\ cache[TopicKey(1)].expires = now + NEWS_CACHE_TTL
    /\ \A i \in 1..2 : \E d \in store : d.item = resp["bg"].items[i]

\* C22: the sleep after a pass ends NEWS_INGEST_INTERVAL = 300 after the
\* time at which the pass began, whatever time the pass took, so that the
\* next pass begins one interval after this one.
C22_SchedulerPeriod ==
    [][(sched.pc = "pass" /\ sched'.pc = "sleep") =>
          /\ NEWS_INGEST_INTERVAL = 300
          /\ sched'.wake = sched.began + NEWS_INGEST_INTERVAL
      ]_vars

\* ------------------------------------------------------------------------
\* Properties of the request path (Spec)
\* ------------------------------------------------------------------------
\* the key get_news_trends looks up
ReqKey(city, disease, limit) == _news_cache_key(city, disease, Min(limit, MAX_LIMIT))

\* Redis holds a value under the key whose TTL has not run out
Unexpired(key) == redis_up /\ cache[key].set /\ now < cache[key].expires

\* C23: a request for a known city that finds an unexpired cache entry under
\* its key answers with the items and the source of that entry, also when
\* the entry has no items; it makes no fetch_combined_news call, starts no
\* adapter, and changes neither the provider state, the metrics nor the cache.
C23_CacheHitSkipsPipeline ==
    [][\A c \in Requests, city \in ReqCities, disease \in ReqDiseases,
          limit \in ReqLimits, rnd \in SynthDraws :
            (/\ ReqArrive(c, city, disease, limit, rnd)
             /\ KnownCity(city)
             /\ Unexpired(ReqKey(city, disease, limit)))
            => /\ resp'[c].status = 200
               /\ resp'[c].items = cache[ReqKey(city, disease, limit)].items
               /\ resp'[c].source = cache[ReqKey(city, disease, limit)].source
               /\ resp'[c].fc = "none"
               /\ UNCHANGED <<call, task, ncalls, healthVars, since_ok, storeVars>>
      ]_vars

\* a request was answered from a cache entry that has no items
C23_Witness ==
    \E c \in Requests, k \in CacheKeys :
        /\ Unexpired(k)
        /\ cache[k].items = <<>>
        /\ resp[c].status = 200
        /\ resp[c].fc = "none"
        /\ resp[c].source = "external"
        /\ resp[c].items = <<>>
        /\ call[c].pc = "idle"

\* C24: with no provider configured, a request for a known city with a limit
\* that is not negative and without an unexpired cache entry under its key is
\* answered with status 200, source "synthetic" and exactly min(limit, 50)
\* generated items, each with a sentiment among neutral, concern, alarm and
\* advisory; the cache is left as it was.
C24_SyntheticFallback ==
    [][\A c \in Requests, city \in ReqCities, disease \in ReqDiseases,
          limit \in SynthLimits, rnd \in SynthDraws :
            (/\ ReqArrive(c, city, disease, limit, rnd)
             /\ KnownCity(city)
             /\ NoProviders(configured)
             /\ ~Unexpired(ReqKey(city, disease, limit)))
            => /\ resp'[c].status = 200
               /\ resp'[c].source = "synthetic"
               /\ resp'[c].fc = "NoProvidersConfigured"
               /\ Len(resp'[c].items) = IF limit < 50 THEN limit ELSE 50
               /\ \A i \in 1..Len(resp'[c].items) :
                     resp'[c].items[i].sentiment
                        \in {"neutral", "concern", "alarm", "advisory"}
               /\ cache' = cache
      ]_vars

\* a request with a limit above 50 got 50 generated items with all four
\* sentiments among them, while Redis is available and holds nothing under
\* the request's key
C24_Witness ==
    \E c \in Requests :
        /\ configured = {}
        /\ redis_up
        /\ ~cache[ReqKey("Mumbai", "flu", 51)].set
        /\ resp[c].source = "synthetic"
        /\ resp[c].status = 200
        /\ Len(resp[c].items) = 50
        /\ {resp[c].items[i].sentiment : i \in 1..50}
              = {"neutral", "concern", "alarm", "advisory"}

\* ------------------------------------------------------------------------
\* Properties of the metrics (SpecHealth)
\* ------------------------------------------------------------------------
\* the adapter invocation of caller c for provider p ends by raising
RaiseStep(c, p) ==
    /\ task[c][p].st \in {"pending", "inflight"}
    /\ task'[c][p].st = "done"
    /\ task'[c][p].res.err # "none"

\* C25: every adapter invocation adds one to the attempts counter of its
\* provider, every invocation that fails (not configured, in backoff, request
\* error) adds one to the failures counter of its provider, and the counters
\* of the other provider stay as they are.
C25_Metrics ==
    [][\A c \in Callers : \A p \in Providers :
         /\ InvokeStep(c, p) =>
               /\ metric_total'[p] = metric_total[p] + 1
               /\ \A q \in Providers \ {p} : metric_total'[q] = metric_total[q]
         /\ RaiseStep(c, p) =>
               /\ metric_fail'[p] = metric_fail[p] + 1
               /\ \A q \in Providers \ {p} : metric_fail'[q] = metric_fail[q]
      ]_vars

\* ------------------------------------------------------------------------
\* Properties of the sentiment classification (SpecSent)
\* ------------------------------------------------------------------------
\* the case-folded text has a word of the list
HasWord(words) == AnyIn(words, LowerText(sent.text))

\* C26: the lexical classifier gives one of the labels alarm, concern,
\* advisory, neutral: alarm if the case-folded text has an alarm keyword,
\* else concern if it has a concern keyword, else advisory if it has an
\* advisory keyword, else neutral; the empty text is neutral.
C26_Tier1Sentiment ==
    sent.tier1 # "" =>
        /\ sent.tier1 \in {"alarm", "concern", "advisory", "neutral"}
        /\ sent.text = <<>> => sent.tier1 = "neutral"
        /\ HasWord(AlarmWords) => sent.tier1 = "alarm"
        /\ (~HasWord(AlarmWords) /\ HasWord(ConcernWords)) => sent.tier1 = "concern"
        /\ (~HasWord(AlarmWords) /\ ~HasWord(ConcernWords) /\ HasWord(AdvisoryWords))
              => sent.tier1 = "advisory"
        /\ (~HasWord(AlarmWords) /\ ~HasWord(ConcernWords) /\ ~HasWord(AdvisoryWords))
              => sent.tier1 = "neutral"

\* a text with an advisory keyword and an alarm keyword, the latter after
\* case folding only, was classified alarm
C26_Witness ==
    /\ sent.stage = "simple"
    /\ HasWord(AdvisoryWords)
    /\ HasWord(AlarmWords)
    /\ ~AnyIn(AlarmWords, sent.text)
    /\ sent.tier1 = "alarm"

\* C27: when the scorer cannot be imported, cannot be constructed or raises
\* while scoring, the label attached is the lexical classifier's label for
\* the same text; the classification always ends with one of the five
\* labels, never with an error.
C27_SilentFallback ==
    /\ sent.stage \in {"idle", "drawn", "simple", "done"}
    /\ sent.stage = "done" =>
          /\ sent.label \in {"neutral", "concern", "alarm", "advisory", "positive"}
          /\ sent.scorer.fail # "none" =>
                /\ sent.label = _simple_sentiment(sent.text)
                /\ sent.tier1 # "" => sent.label = sent.tier1

\* the scorer could not be constructed, and the label is the lexical one,
\* which is not neutral
C27_Witness ==
    /\ sent.stage = "done"
    /\ sent.scorer.fail = "construct"
    /\ sent.tier1 = "advisory"
    /\ sent.label = "advisory"

\* the four ranges of the compound score
InPositive(c) == c >= PositiveFrom
InAlarm(c) == c <= AlarmUpTo
InConcern(c) == AlarmUpTo < c /\ c < 0
InNeutral(c) == 0 <= c /\ c < PositiveFrom

\* C28: for a compound score c in [-1, 1] the label is positive when
\* c >= 0.5, alarm when c <= -0.3, concern when -0.3 < c < 0 and neutral when
\* 0 <= c < 0.5; every score of the interval is in exactly one of the ranges.
C28_Tier2Thresholds ==
    (sent.stage = "done" /\ sent.scorer.fail = "none" /\ sent.text # <<>>) =>
        /\ sent.label = "positive" <=> InPositive(sent.scorer.compound)
        /\ sent.label = "alarm" <=> InAlarm(sent.scorer.compound)
        /\ sent.label = "concern" <=> InConcern(sent.scorer.compound)
        /\ sent.label = "neutral" <=> InNeutral(sent.scorer.compound)
        /\ \A c \in (-CompoundUnit)..CompoundUnit :
              Cardinality({r \in 1..4 :
                             \/ r = 1 /\ InPositive(c)
                             \/ r = 2 /\ InAlarm(c)
                             \/ r = 3 /\ InConcern(c)
                             \/ r = 4 /\ InNeutral(c)}) = 1

\* a text that the lexical classifier calls advisory scored exactly -0.3 and
\* is labelled alarm
C28_Witness ==
    /\ sent.stage = "done"
    /\ sent.scorer.fail = "none"
    /\ sent.scorer.compound = AlarmUpTo
    /\ sent.tier1 = "advisory"
    /\ sent.label = "alarm"

\* ------------------------------------------------------------------------
\* Properties of the store (SpecSched)
\* ------------------------------------------------------------------------
\* the items the ingest loop hands to save_news_item in this step
Upserted ==
    IF SchedStep /\ mongo_up /\ sched.pc \in {"start", "sleep", "pass"}
                 /\ store' # store
    THEN {resp'["bg"].items[i] : i \in 1..Len(resp'["bg"].items)}
    ELSE {}

\* C29: the store never holds two documents with the same id, and an upsert
\* of an item that is stored already, with the same id and the same fields,
\* leaves its document as it was.
C29_UpsertIdempotent ==
    /\ [](\A d1 \in store : \A d2 \in store : d1.id = d2.id => d1 = d2)
    /\ [][\A d \in store : d.item \in Upserted => d \in store']_vars

\* ------------------------------------------------------------------------
\* Properties of one call and the provider state (SpecHealth)
\* ------------------------------------------------------------------------
\* the request of caller c to provider p ends in this step
RequestEnds(c, p) == task[c][p].st = "inflight" /\ task'[c][p].st # "inflight"

C31_EligibilityPureRead ==
    [][\A c \in Callers, p \in Providers :
          InvokeStep(c, p) =>
            /\ provider_state' = provider_state
            /\ (~provider_state[p].present => ~provider_state'[p].present)
            /\ (provider_state[p].backoff /\ now >= provider_state[p].backoff_until
                  => /\ provider_state'[p].backoff
                     /\ provider_state'[p].backoff_until = provider_state[p].backoff_until
                     /\ provider_state'[p].fails = provider_state[p].fails)
            /\ since_ok' = since_ok
            /\ metric_fail' = metric_fail]_vars

\* an attempt was admitted after the window had passed, and the record still
\* holds the passed backoff_until and the counter at the threshold
C31_Witness ==
    \E c \in Callers, p \in Providers :
        /\ task[c][p].st = "inflight"
        /\ provider_state[p].backoff
        /\ now >= provider_state[p].backoff_until
        /\ provider_state[p].fails >= _FAIL_THRESHOLD

\* a step of the adapter of caller c for provider p: its invocation (admitted,
\* not configured or in backoff) or the end of its request
AttemptStep(c, p) ==
    /\ task[c][p].st \in {"pending", "inflight"}
    /\ task'[c][p] # task[c][p]

\* C32: the providers are independent. Whatever an attempt on provider p does
\* (success, failure, not configured, in backoff), the health record, the
\* eligibility and the counters of every other provider q stay as they were;
\* and an adapter of q that is invoked while q is configured and eligible is
\* admitted whether or not p is in backoff in the same aggregation call.
C32_ProviderIndependence ==
    [][\A c \in Callers, p \in Providers : \A q \in Providers \ {p} :
          /\ AttemptStep(c, p) =>
                /\ provider_state'[q] = provider_state[q]
                /\ ProviderOkAt(provider_state'[q], now')
                      = ProviderOkAt(provider_state[q], now)
                /\ metric_total'[q] = metric_total[q]
                /\ metric_fail'[q] = metric_fail[q]
                /\ since_ok'[q] = since_ok[q]
                /\ task'[c][q] = task[c][q]
          /\ (/\ InvokeStep(c, q)
               /\ q \in configured
               /\ ProviderOkAt(provider_state[q], now))
                => /\ task'[c][q].st = "inflight"
                   /\ metric_total'[q] = metric_total[q] + 1]_vars

\* in one aggregation call the adapter of p has been refused by its circuit
\* breaker and the request of q is in flight
C32_Witness ==
    \E c \in Callers, p \in Providers : \E q \in Providers \ {p} :
        /\ task[c][p].st = "done"
        /\ task[c][p].res.err = "InBackoff"
        /\ InWindow(provider_state[p], now)
        /\ task[c][q].st = "inflight"

\* the HTTP request of some caller to provider p got its 2xx answer in this
\* step (the try branch ran, whatever the mapping of the body did afterwards)
AnsweredStep(p) ==
    \E c \in Callers : EndStep(c, p, "none") \/ EndStep(c, p, "BadShape")

BackoffWindow(f) == _BACKOFF_BASE * Pow2(f - _FAIL_THRESHOLD)

\* C34: backoff_until is always the completion time of the provider's latest
\* failed request plus _BACKOFF_BASE * 2^(fails - _FAIL_THRESHOLD): it is
\* written by no step but the end of a request, and a failure at the
\* threshold or beyond writes now plus that window. So a request admitted
\* before the window opened that fails inside it adds one to the counter and
\* moves backoff_until later, with twice the window, although nothing was
\* admitted meanwhile.
C34_BackoffFromLastFailure ==
    [][\A p \in Providers :
          LET s == provider_state[p]
              s1 == provider_state'[p]
          IN  /\ (s1.backoff # s.backoff \/ s1.backoff_until # s.backoff_until)
                    => FailStep(p) \/ AnsweredStep(p)
              /\ (FailStep(p) /\ s1.fails >= _FAIL_THRESHOLD)
                    => /\ s1.backoff
                       /\ s1.backoff_until = now + BackoffWindow(s1.fails)
              /\ (FailStep(p) /\ InWindow(s, now))
                    => /\ s1.fails = s.fails + 1
                       /\ s1.backoff_until > s.backoff_until
                       /\ s1.backoff_until - now = 2 * BackoffWindow(s.fails)
                       /\ metric_total'[p] = metric_total[p]]_vars

\* four requests were admitted and all failed; the fourth failed at the
\* present time, inside the 60 s window of the third, and the window now
\* ends 120 s from now
C34_Witness ==
    \E p \in Providers :
        /\ metric_total[p] = _FAIL_THRESHOLD + 1
        /\ provider_state[p].fails = _FAIL_THRESHOLD + 1
        /\ now < _BACKOFF_BASE
        /\ provider_state[p].backoff
        /\ provider_state[p].backoff_until = now + 2 * _BACKOFF_BASE

\* the window of the record s has passed at time t
Elapsed(s, t) == s.present /\ s.backoff /\ t >= s.backoff_until

C36_BackoffOnlyAtThreshold ==
    \A p \in Providers :
        LET s == provider_state[p]
        IN  /\ s.backoff => s.present /\ s.fails >= _FAIL_THRESHOLD
            /\ s.fails < _FAIL_THRESHOLD => ~s.backoff /\ ~InWindow(s, now)
            /\ (~s.present \/ s.fails = 0)
                  => \A t \in 0..MaxNow : ProviderOkAt(s, t)

\* two failures in a row, one below the threshold: a record without a window
C36_Witness ==
    \E p \in Providers :
        /\ provider_state[p].present
        /\ provider_state[p].fails = _FAIL_THRESHOLD - 1
        /\ since_ok[p] = _FAIL_THRESHOLD - 1
        /\ ~provider_state[p].backoff
        /\ _provider_ok(p)

\* what fetch_combined_news can return without error to caller c in this step
ReturnsTo(c) ==
    {out \in CombineOutcomes(ResultsOf(task[c], ProviderOrder), call[c].limit, now) :
        out.err = "none"}

\* the handler of request c writes the entry of key k in this step
ReqWrites(c, k) ==
    /\ call[c].pc = "gather" /\ call'[c].pc = "idle"
    /\ k = _news_cache_key(call[c].city, call[c].disease, call[c].limit)

\* the ingest loop writes the entry of key k in this step
BgWrites(k) ==
    /\ sched' # sched
    /\ sched.pc \in {"start", "sleep", "pass"}
    /\ \E i \in 1..Len(Topics) : k = TopicKey(i)

\* C37: a cache entry tells its origin truthfully. Every write of an entry
\* is made by a request handler or by the ingest loop. The handler writes
\* only the items a fetch_combined_news call has just returned without
\* error, as "external"; a handler that answers with its synthetic items
\* writes nothing. The loop writes "external" with the items its call
\* returned, or "synthetic" with its fallback items after the call raised.
C37_CacheOrigin ==
    [][/\ \A k \in CacheKeys :
            cache'[k] # cache[k] =>
              /\ cache'[k].set
              /\ cache'[k].source \in {"external", "synthetic"}
              /\ \/ \E c \in Requests :
                       /\ ReqWrites(c, k)
                       /\ cache'[k].source = "external"
                       /\ resp'[c].fc = "ok" /\ resp'[c].source = "external"
                       /\ cache'[k].items = resp'[c].items
                       /\ \E out \in ReturnsTo(c) : cache'[k].items = out.items
                 \/ /\ BgWrites(k)
                    /\ cache'[k].source = "external"
                    /\ resp'["bg"].fc = "ok"
                    /\ \E out \in ReturnsTo("bg") : cache'[k].items = out.items
                 \/ /\ BgWrites(k)
                    /\ cache'[k].source = "synthetic"
                    /\ resp'["bg"].fc \notin {"ok", "none"}
                    /\ \E i \in 1..Len(Topics) :
                         /\ k = TopicKey(i)
                         /\ cache'[k].items
                              = SyntheticTrends(Topics[i].city, Topics[i].disease)
       /\ \A c \in Requests :
            (resp'[c] # resp[c] /\ resp'[c].source = "synthetic") => cache' = cache
      ]_vars

\* one entry is external; another was written by the loop as synthetic, and
\* a request whose call raised has been answered with synthetic items of its
\* own that are in no entry
C37_Witness ==
    /\ \E k \in CacheKeys : cache[k].set /\ cache[k].source = "external"
    /\ \E k \in CacheKeys :
          /\ cache[k].set /\ cache[k].source = "synthetic"
          /\ resp["r1"].source = "synthetic"
          /\ resp["r1"].fc = "TypeError"
          /\ resp["r1"].items # <<>>
          /\ \A j \in CacheKeys : resp["r1"].items # cache[j].items

\* asyncio.create_task(_run_news_ingest_loop(...)) is called in this step
TaskCreated == sched' # sched /\ sched'.pc = "start"

\* C38: at most one background ingest task exists. A task is created only
\* when none has been created before, together with a fresh stop event; once
\* a task exists startup_event changes neither the task nor the stop event
\* however often it runs, the task is never forgotten and its stop event is
\* never replaced by an unset one; and with neither Redis nor MongoDB nor a
\* provider configured no task is ever created.
C38_SingleIngestTask ==
    /\ [][ /\ (TaskCreated =>
                 /\ sched.pc = "none"
                 /\ (redis_up \/ mongo_up \/ configured # {})
                 /\ ~stop_event')
           /\ (sched.pc # "none" => sched'.pc # "none")
           /\ (stop_event => stop_event') ]_vars
    /\ [](sched.pc # "none" =>
            ~ENABLED (Startup /\ <<sched, stop_event>>' # <<sched, stop_event>>))
    /\ [](~(redis_up \/ mongo_up \/ configured # {}) =>
            (sched.pc = "none" /\ ~ENABLED (Startup /\ sched' # sched)))

\* the one task has finished a pass and sleeps, and startup_event can run
\* again
C38_Witness ==
    /\ sched.pc = "sleep"
    /\ sched.handled >= Len(Topics)
    /\ ~stop_event
    /\ ENABLED Startup

\* C39: a request for a city that is not in the city table is answered with
\* status 404, and it reads and writes no cache entry, starts no
\* fetch_combined_news call and no adapter, and changes no health record and
\* no metric.
C39_UnknownCity ==
    [][\A c \in Requests, city \in ReqCities, disease \in ReqDiseases,
          limit \in ReqLimits, rnd \in SynthDraws :
            (ReqArrive(c, city, disease, limit, rnd) /\ ~KnownCity(city))
            => /\ resp'[c].status = 404
               /\ resp'[c].items = <<>>
               /\ resp'[c].source = NoResp.source
               /\ UNCHANGED <<call, task, ncalls, healthVars, since_ok, storeVars>>
      ]_vars
====
